---- MODULE Spec2Model ----
(***************************************************************************)
(* A model of cuisinier: validators, validator combinators, fields that    *)
(* pluck a value out of a raw object, and models that aggregate fields.    *)
(*                                                                         *)
(* JavaScript values are tagged records, objects are ordered property      *)
(* lists (own keys in insertion order), property keys are sequences of     *)
(* one-character strings (so that snake() can be computed), and a call of  *)
(* a validator is an operator that yields the call's outcome (a returned   *)
(* value or a thrown error) together with the log of what it invoked.      *)
(***************************************************************************)
EXTENDS Integers, Sequences, FiniteSets, TLC

VARIABLES
    defs,      \* the heap of definition objects: address -> property list of [k, f]
    models,    \* the Model objects built so far: ref -> [name, definition]
    built,     \* the last construction: model() or extend(), and its arguments
    call,      \* the validation call whose result the caller holds, if any
    data,      \* the raw input of that call
    outcome,   \* what that call returned or threw
    log        \* what that call invoked, in order

vars == <<defs, models, built, call, data, outcome, log>>

----------------------------------------------------------------------------
(* JavaScript values *)

Undefined == [t |-> "undefined"]
Null == [t |-> "null"]
Str(s) == [t |-> "string", s |-> s]
Num(n) == [t |-> "number", n |-> n]
Bool(b) == [t |-> "boolean", b |-> b]
Obj(props) == [t |-> "object", props |-> props]
Arr(elems) == [t |-> "array", elems |-> elems]

\* The typeof operator.
TypeOf(x) ==
    IF x.t \in {"null", "object", "array"} THEN "object" ELSE x.t

\* Array.isArray.
IsArray(x) == x.t = "array"

\* The own keys of a property list, last inserted first.
RECURSIVE ObjectKeysReversed(_)
ObjectKeysReversed(props) ==
    IF props = <<>> THEN <<>>
    ELSE ObjectKeysReversed(Tail(props)) \o <<Head(props).k>>

\* The own keys of a property list, in insertion order (Object.keys).
RECURSIVE ObjectKeys(_)
ObjectKeys(props) ==
    IF props = <<>> THEN <<>>
    ELSE <<Head(props).k>> \o ObjectKeys(Tail(props))

HasKey(props, key) == \E i \in 1..Len(props) : props[i].k = key

\* props[key] for a key the property list holds.
PropOf(props, key) ==
    props[CHOOSE i \in 1..Len(props) : props[i].k = key].v

\* props[key] = value: an existing key keeps its place, a new key goes last.
SetProp(props, key, value) ==
    IF HasKey(props, key)
    THEN [i \in 1..Len(props) |->
            IF props[i].k = key THEN [k |-> key, v |-> value] ELSE props[i]]
    ELSE Append(props, [k |-> key, v |-> value])

\* Object.assign(target, source) on property lists.
RECURSIVE ObjectAssign(_, _)
ObjectAssign(target, source) ==
    IF source = <<>> THEN target
    ELSE ObjectAssign(SetProp(target, Head(source).k, Head(source).v),
                      Tail(source))

----------------------------------------------------------------------------
(* Keys and snake() *)

UpperChars ==
    <<"A", "B", "C", "D", "E", "F", "G", "H", "I", "J", "K", "L", "M",
      "N", "O", "P", "Q", "R", "S", "T", "U", "V", "W", "X", "Y", "Z">>
LowerChars ==
    <<"a", "b", "c", "d", "e", "f", "g", "h", "i", "j", "k", "l", "m",
      "n", "o", "p", "q", "r", "s", "t", "u", "v", "w", "x", "y", "z">>
DigitChars == {"0", "1", "2", "3", "4", "5", "6", "7", "8", "9"}

IsUpper(c) == \E i \in 1..Len(UpperChars) : UpperChars[i] = c
IsDigit(c) == c \in DigitChars

\* String.prototype.toLowerCase on one character.
ToLowerCase(c) ==
    IF IsUpper(c)
    THEN LowerChars[CHOOSE i \in 1..Len(UpperChars) : UpperChars[i] = c]
    ELSE c

\* rest.replace(/[A-Z]|\d+/g, m => `_${m.toLowerCase()}`), from index i on:
\* an uppercase letter is one match, a maximal run of digits is one match.
RECURSIVE SnakeReplace(_, _)

\* A replacement that matches one digit at a time (/[A-Z]|\d/g).
SnakeReplaceEachDigit(rest, i) ==
    IF i > Len(rest) THEN <<>>
    ELSE LET c == rest[i] IN
         IF IsUpper(c)
         THEN <<"_", ToLowerCase(c)>> \o SnakeReplace(rest, i + 1)
         ELSE IF IsDigit(c)
         THEN <<"_", c>> \o SnakeReplace(rest, i + 1)
         ELSE <<c>> \o SnakeReplace(rest, i + 1)

\* A replacement that keeps the case of the match (m => `_${m}`).
SnakeReplaceKeepsCase(rest, i) ==
    IF i > Len(rest) THEN <<>>
    ELSE LET c == rest[i] IN
         IF IsUpper(c)
         THEN <<"_", c>> \o SnakeReplace(rest, i + 1)
         ELSE IF IsDigit(c) /\ (i = 1 \/ ~IsDigit(rest[i - 1]))
         THEN <<"_", c>> \o SnakeReplace(rest, i + 1)
         ELSE <<c>> \o SnakeReplace(rest, i + 1)

SnakeReplace(rest, i) ==
    IF i > Len(rest) THEN <<>>
    ELSE LET c == rest[i] IN
         IF IsUpper(c)
         THEN <<"_", ToLowerCase(c)>> \o SnakeReplace(rest, i + 1)
         ELSE IF IsDigit(c) /\ (i = 1 \/ ~IsDigit(rest[i - 1]))
         THEN <<"_", c>> \o SnakeReplace(rest, i + 1)
         ELSE <<c>> \o SnakeReplace(rest, i + 1)

snake(key) ==
    IF key = <<>> THEN <<>>
    ELSE <<ToLowerCase(Head(key))>> \o SnakeReplace(Tail(key), 1)

\* The key as it is interpolated into a message.
RECURSIVE KeyText(_)
KeyText(key) ==
    IF key = <<>> THEN "" ELSE Head(key) \o KeyText(Tail(key))

----------------------------------------------------------------------------
(* Outcomes of a call: a returned value or a thrown error.  An error      *)
(* records the place that constructed it, which stands for its identity.  *)

Return(v) == [k |-> "return", v |-> v]

ValidationError(assertionMessage, site) ==
    [k |-> "throw", class |-> "ValidationError",
     assertionMessage |-> assertionMessage,
     message |-> "Expected " \o assertionMessage \o ".",
     site |-> site]

NamedValidationError(name, assertionMessage, site) ==
    [k |-> "throw", class |-> "ValidationError.Named",
     name |-> name,
     assertionMessage |-> assertionMessage,
     message |-> name \o " expected " \o assertionMessage \o ".",
     site |-> site]

\* An error that is not a ValidationError: new Error(message), or the
\* TypeError of reading a property of null or undefined.
Defect(class, message, site) ==
    [k |-> "throw", class |-> class, message |-> message, site |-> site]

Thrown(o) == o.k = "throw"

\* An instanceof test that only an error built by ValidationError itself
\* passes.
IsPlainValidationError(o) == Thrown(o) /\ o.class = "ValidationError"

\* e instanceof ValidationError
IsValidationError(o) ==
    Thrown(o) /\ o.class \in {"ValidationError", "ValidationError.Named"}

\* e instanceof ValidationError.Named
IsNamed(o) == Thrown(o) /\ o.class = "ValidationError.Named"

----------------------------------------------------------------------------
(* Validators.  A validator is a record naming the function (op) and, for *)
(* a combinator, the validators it closes over.  A Model is a validator   *)
(* too: [op |-> "model", ref |-> r] is the Model object at models[r].     *)

string == [op |-> "string"]
number == [op |-> "number"]
boolean == [op |-> "boolean"]
\* v => v
identity == [op |-> "identity"]
\* v => number(v) + 1
numberPlusOne == [op |-> "numberPlusOne"]
\* () => { throw new Error(message); }
throwsError(message) == [op |-> "throwsError", message |-> message]
\* () => { throw new ValidationError(assertionMessage); }
throwsValidationError(assertionMessage) ==
    [op |-> "throwsValidationError", assertionMessage |-> assertionMessage]

wrapError(validator, error) ==
    [op |-> "wrapError", validator |-> validator, error |-> error]
optional(validator) == [op |-> "optional", validator |-> validator]
nullable(validator) == [op |-> "nullable", validator |-> validator]
blankable(validate) == [op |-> "blankable", validator |-> validate]
arrayOf(validator) == [op |-> "arrayOf", validator |-> validator]
union(a, b) == [op |-> "union", a |-> a, b |-> b]
intersect(a, b) == [op |-> "intersect", a |-> a, b |-> b]
\* enumOf(_enum); _enum is the enum object, its members' names and values.
enumOf(enum) == [op |-> "enumOf", enum |-> enum]
\* lazy(deferred); deferred is a nullary function that returns a validator
\* or throws.
lazy(deferred) == [op |-> "lazy", deferred |-> deferred]
\* () => validator
Returns(validator) == [k |-> "returns", validator |-> validator]
\* () => { throw new Error(message); }
Throws(message) == [k |-> "throws", message |-> message]
ModelRef(r) == [op |-> "model", ref |-> r]

(* Fields *)

\* new MapField(validator, toSourceKey); toSourceKey is one of the three
\* functions the constructors field, fieldWithKey and fieldFromSnake pass.
MapField(validator, toSourceKey, key) ==
    [class |-> "MapField", validator |-> validator,
     toSourceKey |-> toSourceKey, key |-> key]
field(validator) == MapField(validator, "key => key", <<>>)
fieldWithKey(key, validator) == MapField(validator, "() => key", key)
fieldFromSnake(validator) == MapField(validator, "snake", <<>>)
\* new MultiField(validator)
multiField(validator) == [class |-> "MultiField", validator |-> validator]

\* A field that always reads the key it is asked for.
ToSourceKeyRequested(f, key) == key

\* this.toSourceKey(key)
ToSourceKey(f, key) ==
    CASE f.toSourceKey = "key => key" -> key
      [] f.toSourceKey = "() => key" -> f.key
      [] f.toSourceKey = "snake" -> snake(key)

(* The log of a call *)

InvokeEvent(v, x) == [e |-> "invoke", v |-> v, x |-> x]
PluckEvent(ref, key) == [e |-> "pluck", model |-> ref, key |-> key]
\* deferred() was called.
DeferredEvent(deferred) == [e |-> "deferred", deferred |-> deferred]

Result(out, lg) == [out |-> out, log |-> lg]

\* data[sourceKey]: a TypeError on null and undefined, the own property of
\* an object, the length of an array, undefined otherwise.
GetProperty(x, sourceKey) ==
    IF x.t \in {"null", "undefined"}
    THEN Defect("TypeError",
                "Cannot read property '" \o KeyText(sourceKey) \o "' of "
                    \o x.t,
                "MapField.pluck")
    ELSE IF x.t = "object" /\ HasKey(x.props, sourceKey)
    THEN Return(PropOf(x.props, sourceKey))
    ELSE IF x.t = "array" /\ sourceKey = <<"l", "e", "n", "g", "t", "h">>
    THEN Return(Num(Len(x.elems)))
    ELSE Return(Undefined)

\* A message that leaves the name of a named error out.
validationMessageOfAssertion(e) == e.assertionMessage

\* validationMessageOf(e) for a validation error e.
validationMessageOf(e) ==
    IF IsNamed(e) THEN e.name \o ", that is " \o e.assertionMessage
    ELSE e.assertionMessage

\* A catch clause that keeps the name of a named error.
WrapCatchKeepsName(r, error) ==
    IF IsNamed(r.out)
    THEN Result(NamedValidationError(r.out.name,
                                     error \o " " \o r.out.assertionMessage,
                                     "wrapError"),
                r.log)
    ELSE IF IsValidationError(r.out)
    THEN Result(ValidationError(error \o " " \o r.out.assertionMessage,
                                "wrapError"),
                r.log)
    ELSE r

\* A catch clause that joins the prefix and the assertion without a space.
WrapCatchUnspaced(r, error) ==
    IF IsValidationError(r.out)
    THEN Result(ValidationError(error \o r.out.assertionMessage,
                                "wrapError"),
                r.log)
    ELSE r

\* A catch clause without the instanceof test: every error is rewritten.
WrapCatchEveryError(r, error) ==
    IF Thrown(r.out)
    THEN Result(ValidationError(error \o " "
                                    \o (IF IsValidationError(r.out)
                                        THEN r.out.assertionMessage
                                        ELSE "undefined"),
                                "wrapError"),
                r.log)
    ELSE r

\* The catch clause of wrapError.
WrapCatch(r, error) ==
    IF IsValidationError(r.out)
    THEN Result(ValidationError(error \o " " \o r.out.assertionMessage,
                                "wrapError"),
                r.log)
    ELSE r

\* value == undefined, which null satisfies too.
LooselyUndefined(x) == x \in {Undefined, Null}

\* value === undefined
StrictlyUndefined(x) == x = Undefined

\* value === null
StrictlyNull(x) == x = Null

\* A blankable that hands a blank value back as it came.
BlankUnchanged(x) == x

\* What blankable returns for null and undefined: undefined.
Blank(x) == Undefined

\* The own enumerable properties Object.assign copies from a source: those
\* of an object, the indices of an array, none of undefined, null, a number
\* or a boolean.  (intersect takes validators of objects; a string source is
\* not modelled.)
OwnProps(x) ==
    IF x.t = "object" THEN x.props
    ELSE IF x.t = "array"
    THEN [i \in 1..Len(x.elems) |->
            [k |-> <<ToString(i - 1)>>, v |-> x.elems[i]]]
    ELSE <<>>

\* A merge in which the first result's values win.
AssignResultsFirstWins(ra, rb) ==
    ObjectAssign(ObjectAssign(<<>>, OwnProps(rb)), OwnProps(ra))

\* Object.assign({}, ra, rb)
AssignResults(ra, rb) ==
    ObjectAssign(ObjectAssign(<<>>, OwnProps(ra)), OwnProps(rb))

\* A membership test on the names of the enum's members (value in _enum).
EnumHasName(enum, value) ==
    \E i \in 1..Len(enum) : KeyText(enum[i].k) = value.s

\* Enum.isType(_enum, value) for a string value: value is the value of one
\* of the enum's members.
EnumIsType(enum, value) == \E i \in 1..Len(enum) : enum[i].v = value

\* A test for a missing input only (data == null).
IsNotNullish(x) == x.t \notin {"undefined", "null"}

\* The typeof test that opens Model.validate.
IsObjectTyped(x) == TypeOf(x) = "object"

\* A catch clause that rethrows whatever the model's name is.
ModelCatchRethrow(name, r) == r

\* The catch clause of Model.validate.
ModelCatch(name, r) ==
    IF IsValidationError(r.out) /\ name # Null
    THEN Result(NamedValidationError(name.s, r.out.assertionMessage,
                                     "Model.validate"),
                r.log)
    ELSE r

\* A pluck that names the requested key in its message.
AttributePrefixOfRequestedKey(key, sourceKey) ==
    "an object with attribute '" \o KeyText(key) \o "', that is"

\* The prefix MapField.pluck(key, data) hands to wrapError.
AttributePrefix(key, sourceKey) ==
    "an object with attribute '" \o KeyText(sourceKey) \o "', that is"

\* if (value) { result[key] = value; }: a loop that drops every falsy value.
SetResultTruthy(result, key, value) ==
    IF value \notin {Undefined, Null, Str(""), Num(0), Bool(FALSE)}
    THEN SetProp(result, key, value) ELSE result

\* A loop that sets every plucked value, undefined too.
SetResultAlways(result, key, value) == SetProp(result, key, value)

\* if (value !== undefined) { result[key] = value; }
SetResult(result, key, value) ==
    IF value # Undefined THEN SetProp(result, key, value) ELSE result

RECURSIVE Validate(_, _, _)
RECURSIVE MapValues(_, _, _, _, _, _)
RECURSIVE Pluck(_, _, _, _)
RECURSIVE PluckFields(_, _, _, _, _, _, _)
RECURSIVE ModelValidate(_, _, _)

\* wrapError(validator, error)(value)
WrapErrorCall(h, validator, error, value) ==
    WrapCatch(Validate(h, validator, value), error)

\* A union that falls back to b on every error of a.
UnionCallFallbackOnAnyError(h, a, b, x) ==
    LET ra == Validate(h, a, x) IN
    IF ~Thrown(ra.out) THEN ra
    ELSE LET rb == Validate(h, b, x)
             lg == ra.log \o rb.log
         IN IF ~Thrown(rb.out) \/ ~IsValidationError(rb.out)
               \/ ~IsValidationError(ra.out)
            THEN Result(rb.out, lg)
            ELSE Result(ValidationError(validationMessageOf(ra.out)
                                            \o "; or "
                                            \o validationMessageOf(rb.out),
                                        "union"),
                        lg)

\* A union that tries its second validator first.
UnionCallSecondFirst(h, a, b, x) ==
    LET rb == Validate(h, b, x) IN
    IF ~Thrown(rb.out) \/ ~IsValidationError(rb.out) THEN rb
    ELSE LET ra == Validate(h, a, x)
             lg == rb.log \o ra.log
         IN IF ~Thrown(ra.out) \/ ~IsValidationError(ra.out)
            THEN Result(ra.out, lg)
            ELSE Result(ValidationError(validationMessageOf(ra.out)
                                            \o "; or "
                                            \o validationMessageOf(rb.out),
                                        "union"),
                        lg)

\* union(a, b)(data)
UnionCall(h, a, b, x) ==
    LET ra == Validate(h, a, x) IN
    IF ~Thrown(ra.out) \/ ~IsValidationError(ra.out) THEN ra
    ELSE LET rb == Validate(h, b, x)
             lg == ra.log \o rb.log
         IN IF ~Thrown(rb.out) \/ ~IsValidationError(rb.out)
            THEN Result(rb.out, lg)
            ELSE Result(ValidationError(validationMessageOf(ra.out)
                                            \o "; or "
                                            \o validationMessageOf(rb.out),
                                        "union"),
                        lg)

\* An intersect that runs b whatever a did, and reports a's error first.
IntersectCallBothRun(h, a, b, x) ==
    LET ra == Validate(h, a, x)
        rb == Validate(h, b, x)
        lg == ra.log \o rb.log
    IN IF Thrown(ra.out) THEN Result(ra.out, lg)
       ELSE IF Thrown(rb.out) THEN Result(rb.out, lg)
       ELSE Result(Return(Obj(AssignResults(ra.out.v, rb.out.v))), lg)

\* intersect(a, b)(data): Object.assign({}, a(data), b(data)); the
\* arguments are evaluated left to right and a throw ends the evaluation.
IntersectCall(h, a, b, x) ==
    LET ra == Validate(h, a, x) IN
    IF Thrown(ra.out) THEN ra
    ELSE LET rb == Validate(h, b, x)
             lg == ra.log \o rb.log
         IN IF Thrown(rb.out) THEN Result(rb.out, lg)
            ELSE Result(Return(Obj(AssignResults(ra.out.v, rb.out.v))), lg)

\* A lazy whose validator was resolved beforehand: no call of deferred.
LazyCallResolved(h, deferred, x) ==
    IF deferred.k = "throws"
    THEN Result(Defect("Error", deferred.message, "deferred"), <<>>)
    ELSE Validate(h, deferred.validator, x)

\* lazy(deferred)(value): deferred()(value)
LazyCall(h, deferred, x) ==
    IF deferred.k = "throws"
    THEN Result(Defect("Error", deferred.message, "deferred"),
                <<DeferredEvent(deferred)>>)
    ELSE LET r == Validate(h, deferred.validator, x)
         IN Result(r.out, <<DeferredEvent(deferred)>> \o r.log)

\* A map whose message counts the elements from one.
MapValuesOneBased(h, validator, values, i, acc, lg) ==
    IF i > Len(values) THEN Result(Return(Arr(acc)), lg)
    ELSE LET r == WrapErrorCall(h, validator,
                      "an array with value at [" \o ToString(i)
                          \o "], that is",
                      values[i])
         IN IF Thrown(r.out) THEN Result(r.out, lg \o r.log)
            ELSE MapValues(h, validator, values, i + 1,
                           Append(acc, r.out.v), lg \o r.log)

\* values.map((value, index) => wrapError(validator, ...)(value)), from
\* index i (1-based here, 0-based in the message) with the elements mapped
\* so far in acc.
MapValues(h, validator, values, i, acc, lg) ==
    IF i > Len(values) THEN Result(Return(Arr(acc)), lg)
    ELSE LET r == WrapErrorCall(h, validator,
                      "an array with value at [" \o ToString(i - 1)
                          \o "], that is",
                      values[i])
         IN IF Thrown(r.out) THEN Result(r.out, lg \o r.log)
            ELSE MapValues(h, validator, values, i + 1,
                           Append(acc, r.out.v), lg \o r.log)

\* validator(value): the outcome and the log of the call.
Validate(h, v, x) ==
    LET ev == <<InvokeEvent(v, x)>> IN
    CASE v.op = "string" ->
           Result(IF TypeOf(x) = "string" THEN Return(x)
                  ELSE ValidationError("a string", "string"), ev)
      [] v.op = "number" ->
           Result(IF TypeOf(x) = "number" THEN Return(x)
                  ELSE ValidationError("a number", "number"), ev)
      [] v.op = "boolean" ->
           Result(IF TypeOf(x) = "boolean" THEN Return(x)
                  ELSE ValidationError("a boolean", "boolean"), ev)
      [] v.op = "identity" -> Result(Return(x), ev)
      [] v.op = "numberPlusOne" ->
           Result(IF TypeOf(x) = "number" THEN Return(Num(x.n + 1))
                  ELSE ValidationError("a number", "number"), ev)
      [] v.op = "throwsError" ->
           Result(Defect("Error", v.message, "throwsError"), ev)
      [] v.op = "throwsValidationError" ->
           Result(ValidationError(v.assertionMessage,
                                  "throwsValidationError"), ev)
      [] v.op = "wrapError" ->
           LET r == WrapErrorCall(h, v.validator, v.error, x)
           IN Result(r.out, ev \o r.log)
      [] v.op = "optional" ->
           IF StrictlyUndefined(x) THEN Result(Return(x), ev)
           ELSE LET r == WrapErrorCall(h, v.validator, "undefined or", x)
                IN Result(r.out, ev \o r.log)
      [] v.op = "nullable" ->
           IF StrictlyNull(x) THEN Result(Return(x), ev)
           ELSE LET r == WrapErrorCall(h, v.validator, "null or", x)
                IN Result(r.out, ev \o r.log)
      [] v.op = "blankable" ->
           IF StrictlyNull(x) \/ StrictlyUndefined(x)
           THEN Result(Return(Blank(x)), ev)
           ELSE LET r == WrapErrorCall(h, v.validator,
                                       "null, undefined, or", x)
                IN Result(r.out, ev \o r.log)
      [] v.op = "arrayOf" ->
           IF IsArray(x)
           THEN MapValues(h, v.validator, x.elems, 1, <<>>, ev)
           ELSE Result(ValidationError("an array", "arrayOf"), ev)
      [] v.op = "union" ->
           LET r == UnionCall(h, v.a, v.b, x)
           IN Result(r.out, ev \o r.log)
      [] v.op = "enumOf" ->
           Result(IF TypeOf(x) = "string"
                  THEN IF EnumIsType(v.enum, x) THEN Return(x)
                       ELSE ValidationError("a value in the enum", "enumOf")
                  ELSE ValidationError("a string", "enumOf"), ev)
      [] v.op = "intersect" ->
           LET r == IntersectCall(h, v.a, v.b, x)
           IN Result(r.out, ev \o r.log)
      [] v.op = "lazy" ->
           LET r == LazyCall(h, v.deferred, x)
           IN Result(r.out, ev \o r.log)
      [] v.op = "model" ->
           LET r == ModelValidate(h, v.ref, x)
           IN Result(r.out, ev \o r.log)

\* A whole-object field that reports failures under its key, as a
\* key-mapped field does.
PluckPrefixed(h, f, key, x) ==
    IF f.class = "MultiField"
    THEN WrapErrorCall(h, f.validator, AttributePrefix(key, key), x)
    ELSE LET sourceKey == ToSourceKey(f, key)
             value == GetProperty(x, sourceKey)
         IN IF Thrown(value) THEN Result(value, <<>>)
            ELSE WrapErrorCall(h, f.validator,
                               AttributePrefix(key, sourceKey), value.v)

\* MapField.pluck(key, data) and MultiField.pluck(_, data)
Pluck(h, f, key, x) ==
    IF f.class = "MultiField" THEN Validate(h, f.validator, x)
    ELSE LET sourceKey == ToSourceKey(f, key)
             value == GetProperty(x, sourceKey)
         IN IF Thrown(value) THEN Result(value, <<>>)
            ELSE WrapErrorCall(h, f.validator,
                               AttributePrefix(key, sourceKey), value.v)

\* The for loop of Model.validate over keys[i..], with the result object
\* built so far.
PluckFields(h, ref, keys, i, x, result, lg) ==
    IF i > Len(keys) THEN Result(Return(Obj(result)), lg)
    ELSE LET key == keys[i]
             f == PropOf(h.defs[h.models[ref].definition], key)
             r == Pluck(h, f, key, x)
             lg2 == lg \o <<PluckEvent(ref, key)>> \o r.log
         IN IF Thrown(r.out) THEN Result(r.out, lg2)
            ELSE PluckFields(h, ref, keys, i + 1, x,
                             SetResult(result, key, r.out.v), lg2)

\* Model.validate(data) of the model at models[ref].
ModelValidate(h, ref, x) ==
    LET m == h.models[ref]
        body ==
            IF ~IsObjectTyped(x)
            THEN Result(ValidationError("an object", "Model.validate"), <<>>)
            ELSE PluckFields(h, ref, ObjectKeys(h.defs[m.definition]), 1,
                             x, <<>>, <<>>)
    IN ModelCatch(m.name, body)

----------------------------------------------------------------------------
(* The schemas and the inputs the model draws from *)

\* The most Model objects a run builds.
MaxModels == 3

k_a == <<"a">>
k_b == <<"b">>
k_c == <<"c">>
k_d == <<"d">>
k_e == <<"e">>
k_aKey == <<"a", "K", "e", "y">>
k_a_key == <<"a", "_", "k", "e", "y">>

Prop(key, value) == [k |-> key, v |-> value]

\* {e: field(v => number(v) + 1)}
InnerDefinition == <<Prop(k_e, field(numberPlusOne))>>

\* {aKey: fieldFromSnake(string), c: fieldWithKey('d', inner),
\*  b: field(blankable(string))}
OuterDefinition(inner) ==
    <<Prop(k_aKey, fieldFromSnake(string)),
      Prop(k_c, fieldWithKey(k_d, ModelRef(inner))),
      Prop(k_b, field(blankable(string)))>>

\* {b: field(number), d: field(optional(string))}
ExtensionDefinition ==
    <<Prop(k_b, field(number)), Prop(k_d, field(optional(string)))>>

EmptyDefinition == <<>>

\* The names given to models: null, or a string.
ModelNames == {Null, Str("MyClass")}
ExtendNames == {Null, Str("Sub")}

\* The definitions passed to model() and, raw, to extend().
NewDefinitions == {EmptyDefinition}
RawExtensions == {ExtensionDefinition}

\* The raw inputs: the objects made of one choice of each group of
\* properties, the empty object, and the values that are not plain objects.
AKeyProps ==
    {<<Prop(k_aKey, Str("1"))>>,
     <<Prop(k_aKey, Num(7)), Prop(k_a_key, Str("1"))>>}
DProps ==
    {<<Prop(k_d, Obj(<<Prop(k_e, Num(2))>>))>>,
     <<Prop(k_d, Obj(<<Prop(k_e, Str("2"))>>))>>,
     <<Prop(k_d, Str("2"))>>}
BProps ==
    {<<>>, <<Prop(k_b, Null)>>, <<Prop(k_b, Str("2"))>>,
     <<Prop(k_b, Num(5))>>}

ObjectInputs == {Obj(a \o d \o b) : a \in AKeyProps, d \in DProps, b \in BProps}
Primitives == {Str(""), Num(0), Bool(TRUE)}
Arrays == {Arr(<<>>), Arr(<<Str("x")>>)}
Inputs ==
    ObjectInputs \cup {Obj(<<>>)} \cup Primitives \cup {Undefined, Null}
        \cup Arrays

----------------------------------------------------------------------------
(* The state machine *)

Heap == [defs |-> defs, models |-> models]

NoCall == [op |-> "none"]
NoOutcome == [k |-> "none"]

\* The caller issues one operation at a time: the next one starts when it
\* holds no validation result.
Idle == call = NoCall

\* new Model({name, definition})
NewModelObject(name, definition) == [name |-> name, definition |-> definition]

\* The state after the schema module ran:
\*   const inner = model(null, {e: ...});
\*   const outer = model(name, {aKey: ..., c: fieldWithKey('d', inner), b: ...});
Init ==
    /\ defs = <<InnerDefinition, OuterDefinition(1)>>
    /\ \E name \in ModelNames :
          /\ models = <<NewModelObject(Null, 1), NewModelObject(name, 2)>>
          /\ built = [op |-> "model", name |-> name, definition |-> 2,
                      result |-> ModelRef(2)]
    /\ call = NoCall
    /\ data = Undefined
    /\ outcome = NoOutcome
    /\ log = <<>>

\* model(name, definition): the model keeps the definition object passed.
NewModel(name, definition) ==
    /\ Idle
    /\ Len(models) < MaxModels
    /\ defs' = Append(defs, definition)
    /\ models' = Append(models, NewModelObject(name, Len(defs) + 1))
    /\ built' = [op |-> "model", name |-> name, definition |-> Len(defs) + 1,
                 result |-> ModelRef(Len(models) + 1)]
    /\ UNCHANGED <<call, data, outcome, log>>

\* An extend that assigns into the receiver's own definition object.
ExtendTargetReceiver(ds, base) == models[base].definition

\* The address of the target of Object.assign in extend: a fresh {}.
ExtendTarget(ds, base) == Len(ds) + 1

\* An extend that keeps the base's name when it is passed null.
ExtendNameInherited(base, name) ==
    IF name = Null THEN models[base].name ELSE name

\* The name of the model that base.extend(name, extension) builds.
ExtendName(base, name) == name

\* base.extend(name, extension) on the heap ds, the extension's definition
\* being at address ext of it.
ExtendWith(ds, base, name, extension, ext) ==
    LET target == ExtendTarget(ds, base)
        ds1 == IF target > Len(ds) THEN Append(ds, <<>>) ELSE ds
        assigned == ObjectAssign(ObjectAssign(ds1[target],
                                              ds1[models[base].definition]),
                                 ds1[ext])
    IN /\ defs' = [ds1 EXCEPT ![target] = assigned]
       /\ models' = Append(models,
                           NewModelObject(ExtendName(base, name), target))
       /\ built' = [op |-> "extend", base |-> base, name |-> name,
                    extension |-> extension, definition |-> ext,
                    result |-> ModelRef(Len(models) + 1)]
       /\ UNCHANGED <<call, data, outcome, log>>

\* base.extend(name, extension), extension instanceof Model
ExtendByModel(base, name, extension) ==
    /\ Idle
    /\ Len(models) < MaxModels
    /\ ExtendWith(defs, base, name, ModelRef(extension),
                  models[extension].definition)

\* base.extend(name, extension), extension a raw definition object
ExtendByDefinition(base, name, extension) ==
    /\ Idle
    /\ Len(models) < MaxModels
    /\ ExtendWith(Append(defs, extension), base, name, [op |-> "definition"],
                  Len(defs) + 1)

\* A validate that keeps its last outcome on the Model object.
CallRemembering(ref, raw) ==
    LET r == Validate(Heap, ModelRef(ref), raw) IN
    /\ Idle
    /\ call' = [op |-> "validate", validator |-> ModelRef(ref)]
    /\ data' = raw
    /\ outcome' = r.out
    /\ log' = r.log
    /\ models' = [models EXCEPT ![ref] =
                     [name |-> @.name, definition |-> @.definition,
                      last |-> r.out]]
    /\ UNCHANGED <<defs, built>>

\* models[ref](raw), that is models[ref].validate(raw)
Call(ref, raw) ==
    LET r == Validate(Heap, ModelRef(ref), raw) IN
    /\ Idle
    /\ call' = [op |-> "validate", validator |-> ModelRef(ref)]
    /\ data' = raw
    /\ outcome' = r.out
    /\ log' = r.log
    /\ UNCHANGED <<defs, models, built>>

\* The caller is done with the result of the validation call.
Discard ==
    /\ ~Idle
    /\ call' = NoCall
    /\ data' = Undefined
    /\ outcome' = NoOutcome
    /\ log' = <<>>
    /\ UNCHANGED <<defs, models, built>>

Next ==
    \/ \E name \in ModelNames, definition \in NewDefinitions :
          NewModel(name, definition)
    \/ \E base \in 1..Len(models), name \in ExtendNames :
          \E extension \in 1..Len(models) \ {base} :
              ExtendByModel(base, name, extension)
    \/ \E base \in 1..Len(models), name \in ExtendNames,
          extension \in RawExtensions :
          ExtendByDefinition(base, name, extension)
    \/ \E ref \in 1..Len(models), raw \in Inputs : Call(ref, raw)
    \/ Discard

Spec == Init /\ [][Next]_vars

----------------------------------------------------------------------------
(* Validators called on their own: the combinators over the leaf          *)
(* validators and over the models of a fixed schema.                       *)

\* The most wrappers (wrapError, optional, nullable, blankable, arrayOf)
\* stacked on a validator.
MaxWrap == 2

\* model('ModelA', {a: field(string)})
ModelADefinition == <<Prop(k_a, field(string))>>
\* model('ModelB', {b: field(number)})
ModelBDefinition == <<Prop(k_b, field(number))>>
\* badModel = model(null, {a: field(() => { throw new Error(...); })})
BadDefinition == <<Prop(k_a, field(throwsError("A non-parse error")))>>
\* model('Offer', {c: multiField(badModel)})
OfferDefinition == <<Prop(k_c, multiField(ModelRef(3)))>>
\* model(null, {e: fieldWithKey('d', nullable(blankable(arrayOf(Offer))))})
ListingDefinition ==
    <<Prop(k_e, fieldWithKey(k_d, nullable(blankable(arrayOf(ModelRef(4))))))>>

\* model('ModelC', {a: fieldWithKey('b', number)})
ModelCDefinition == <<Prop(k_a, fieldWithKey(k_b, number))>>
\* model(null, {a: field(blankable(string)), b: field(nullable(number))})
BlanksDefinition ==
    <<Prop(k_a, field(blankable(string))), Prop(k_b, field(nullable(number)))>>
\* model(null, {c: multiField(ModelC), a: field(optional(string))})
MergedDefinition ==
    <<Prop(k_c, multiField(ModelRef(6))), Prop(k_a, field(optional(string)))>>

\* model(null, {b: field(number), a: field(optional(string))})
PlainDefinition ==
    <<Prop(k_b, field(number)), Prop(k_a, field(optional(string)))>>

\* model('Parent', {c: fieldWithKey('d', ModelA)})
ParentDefinition == <<Prop(k_c, fieldWithKey(k_d, ModelRef(1)))>>

SchemaDefinitions ==
    <<ModelADefinition, ModelBDefinition, BadDefinition, OfferDefinition,
      ListingDefinition, ModelCDefinition, BlanksDefinition,
      MergedDefinition, PlainDefinition, ParentDefinition>>
SchemaModels ==
    <<NewModelObject(Str("ModelA"), 1), NewModelObject(Str("ModelB"), 2),
      NewModelObject(Null, 3), NewModelObject(Str("Offer"), 4),
      NewModelObject(Null, 5), NewModelObject(Str("ModelC"), 6),
      NewModelObject(Null, 7), NewModelObject(Null, 8),
      NewModelObject(Null, 9), NewModelObject(Str("Parent"), 10)>>

\* enum Value { value1 = 'a', value2 = 'b' }
Value ==
    <<[k |-> <<"v", "a", "l", "u", "e", "1">>, v |-> Str("a")],
      [k |-> <<"v", "a", "l", "u", "e", "2">>, v |-> Str("b")]>>

\* The functions handed to lazy.
Deferreds ==
    {Returns(string), Returns(ModelRef(1)), Throws("Should not be called.")}
Lazies == {lazy(deferred) : deferred \in Deferreds}

BaseValidators ==
    {string, number, identity, numberPlusOne, throwsError("Test error"),
     throwsValidationError("we deserve")}
        \cup {ModelRef(r) : r \in 1..Len(SchemaModels)}
        \cup Lazies
        \cup {enumOf(Value)}

WrapOnce(v) ==
    {wrapError(v, "a message"), optional(v), nullable(v), blankable(v),
     arrayOf(v)}

\* The validators with at most n wrappers around a base validator.
RECURSIVE Wrapped(_)
Wrapped(n) ==
    IF n = 0 THEN BaseValidators
    ELSE LET inner == Wrapped(n - 1)
         IN inner \cup UNION {WrapOnce(v) : v \in inner}

Unions == {union(a, b) : a \in BaseValidators, b \in BaseValidators}

\* intersect takes validators of objects: the models and the validators
\* that only throw.
IntersectOperands ==
    {ModelRef(1), ModelRef(2), ModelRef(3), ModelRef(6), ModelRef(7),
     throwsError("Test error"), throwsValidationError("we deserve")}
Intersections ==
    {intersect(a, b) : a \in IntersectOperands, b \in IntersectOperands}

Validators == Wrapped(MaxWrap) \cup Unions \cup Intersections

ValidatorInputs ==
    {Undefined, Null, Str("asdf"), Str("a"), Str(""), Num(1234), Bool(TRUE),
     Arr(<<>>), Arr(<<Str("x"), Num(1)>>), Arr(<<Num(1), Str("x"), Null>>),
     Obj(<<>>),
     Obj(<<Prop(k_a, Str("asdf"))>>),
     Obj(<<Prop(k_b, Num(1234))>>),
     Obj(<<Prop(k_a, Str("asdf")), Prop(k_b, Num(1234))>>),
     Obj(<<Prop(k_a, Num(1234)), Prop(k_b, Str("asdf"))>>),
     Obj(<<Prop(k_a, Null), Prop(k_b, Null)>>),
     Obj(<<Prop(k_a, Undefined), Prop(k_b, Num(1234))>>),
     Obj(<<Prop(k_a, Str("")), Prop(k_b, Num(0))>>),
     Obj(<<Prop(k_d, Arr(<<Obj(<<>>)>>))>>)}

\* The state after the schema module built its models, from ModelA to
\* Parent.
InitV ==
    /\ defs = SchemaDefinitions
    /\ models = SchemaModels
    /\ built = [op |-> "model", name |-> Str("Parent"), definition |-> 10,
                result |-> ModelRef(10)]
    /\ call = NoCall
    /\ data = Undefined
    /\ outcome = NoOutcome
    /\ log = <<>>

\* validator(raw)
Invoke(validator, raw) ==
    LET r == Validate(Heap, validator, raw) IN
    /\ Idle
    /\ call' = [op |-> "validate", validator |-> validator]
    /\ data' = raw
    /\ outcome' = r.out
    /\ log' = r.log
    /\ UNCHANGED <<defs, models, built>>

\* A function value.
Fn(validator) == [t |-> "function", validator |-> validator]

\* lazy(deferred): the validator is built and returned; nothing is called.
Lazy(deferred) ==
    /\ Idle
    /\ call' = [op |-> "lazy", validator |-> lazy(deferred)]
    /\ data' = Undefined
    /\ outcome' = Return(Fn(lazy(deferred)))
    /\ log' = <<>>
    /\ UNCHANGED <<defs, models, built>>

\* A validator is called only when no call is under way.
NextV ==
    \/ /\ Idle
       /\ \E validator \in Validators, raw \in ValidatorInputs :
             Invoke(validator, raw)
    \/ \E deferred \in Deferreds : Lazy(deferred)
    \/ Discard

SpecV == InitV /\ [][NextV]_vars

----------------------------------------------------------------------------
(* snake called on its own *)

\* The longest key snake is given.
MaxKeyLen == 4

\* A lowercase letter, an uppercase letter, a digit, an underscore, a space.
KeyChars == {"a", "B", "1", "_", " "}
Keys == UNION {[1..n -> KeyChars] : n \in 0..MaxKeyLen}

\* A string value with its characters.
StrOf(key) == [t |-> "string", s |-> KeyText(key), chars |-> key]

InitS ==
    /\ defs = <<>>
    /\ models = <<>>
    /\ built = [op |-> "none"]
    /\ call = NoCall
    /\ data = Undefined
    /\ outcome = NoOutcome
    /\ log = <<>>

\* snake(key)
Snake(key) ==
    /\ Idle
    /\ call' = [op |-> "snake", validator |-> [op |-> "snake"]]
    /\ data' = StrOf(key)
    /\ outcome' = Return(StrOf(snake(key)))
    /\ log' = <<>>
    /\ UNCHANGED <<defs, models, built>>

NextS ==
    \/ /\ Idle
       /\ \E key \in Keys : Snake(key)
    \/ Discard

SpecS == InitS /\ [][NextS]_vars

----------------------------------------------------------------------------
(* date called on its own *)

\* The months and the days of the month the date strings are written with
\* run from 0 to these.
MaxMonth == 13
MaxDay == 32

\* A leap year, a common year, a century that is a common year and one that
\* is a leap year.
Years == {2016, 2017, 1900, 2000}

Digits == <<"0", "1", "2", "3", "4", "5", "6", "7", "8", "9">>
DigitValue(c) == (CHOOSE i \in 1..Len(Digits) : Digits[i] = c) - 1

\* n written with width digits, zero-padded.
RECURSIVE Pad(_, _)
Pad(n, width) ==
    IF width = 0 THEN <<>>
    ELSE Pad(n \div 10, width - 1) \o <<Digits[(n % 10) + 1]>>

FormatDate(y, m, d) == Pad(y, 4) \o <<"-">> \o Pad(m, 2) \o <<"-">> \o Pad(d, 2)

\* A Date object: a calendar day and an hour of local time.
DateOf(y, m, d, h) ==
    [t |-> "date", year |-> y, month |-> m, day |-> d, hour |-> h]

\* The strict match of 'YYYY-MM-DD': four digits, two digits, two digits,
\* nothing else.
MatchesFormat(chars) ==
    /\ Len(chars) = 10
    /\ chars[5] = "-"
    /\ chars[8] = "-"
    /\ \A i \in {1, 2, 3, 4, 6, 7, 9, 10} : IsDigit(chars[i])

ParsedYear(chars) ==
    1000 * DigitValue(chars[1]) + 100 * DigitValue(chars[2])
        + 10 * DigitValue(chars[3]) + DigitValue(chars[4])
ParsedMonth(chars) == 10 * DigitValue(chars[6]) + DigitValue(chars[7])
ParsedDay(chars) == 10 * DigitValue(chars[9]) + DigitValue(chars[10])

IsLeapYear(y) == (y % 4 = 0 /\ y % 100 # 0) \/ y % 400 = 0
DaysInMonth(y, m) ==
    IF m = 2 THEN (IF IsLeapYear(y) THEN 29 ELSE 28)
    ELSE IF m \in {4, 6, 9, 11} THEN 30 ELSE 31

\* moment(value, 'YYYY-MM-DD', true).isValid()
MomentIsValid(chars) ==
    /\ MatchesFormat(chars)
    /\ ParsedMonth(chars) \in 1..12
    /\ ParsedDay(chars) \in 1..DaysInMonth(ParsedYear(chars), ParsedMonth(chars))

\* date.set('hour', 12)
DateHour == 12

\* date(value)
DateCall(x) ==
    IF TypeOf(x) = "string" /\ MomentIsValid(x.chars)
    THEN Return(DateOf(ParsedYear(x.chars), ParsedMonth(x.chars),
                       ParsedDay(x.chars), DateHour))
    ELSE ValidationError("a date formatted string", "date")

\* The strings 'YYYY-MM-DD' of every year, month and day of the ranges, some
\* of them with time data or a trailing space or a fifth year digit or a
\* digit missing, and values that are not strings.
DateStrings ==
    {FormatDate(y, m, d) : y \in Years, m \in 0..MaxMonth, d \in 0..MaxDay}
MalformedStrings ==
    {<<>>,
     <<"w", "o", "r", "l", "d">>,
     FormatDate(2017, 1, 25) \o <<"T", "2", "0", ":", "3", "0", ":", "0", "0", "Z">>,
     FormatDate(2017, 4, 30) \o <<" ">>,
     <<"1">> \o FormatDate(0, 4, 30),
     Pad(2017, 4) \o <<"-", "1", "-">> \o Pad(25, 2)}
DateInputs ==
    {StrOf(chars) : chars \in DateStrings \cup MalformedStrings}
        \cup {Undefined, Null, Num(1), Obj(<<>>)}

\* date(value)
Date(value) ==
    /\ Idle
    /\ call' = [op |-> "date", validator |-> [op |-> "date"]]
    /\ data' = value
    /\ outcome' = DateCall(value)
    /\ log' = <<>>
    /\ UNCHANGED <<defs, models, built>>

NextD ==
    \/ /\ Idle
       /\ \E value \in DateInputs : Date(value)
    \/ Discard

SpecD == InitS /\ [][NextD]_vars

----------------------------------------------------------------------------
(* What the properties below read off a state *)

\* A validation call of a Model has just returned or thrown.
ModelCall == call # NoCall /\ call.validator.op = "model"
CalledRef == call.validator.ref
CalledModel == models[CalledRef]
CalledDefinition == defs[CalledModel.definition]

\* The keys of a definition, in the order they were inserted.
KeysOf(definition) == [i \in 1..Len(definition) |-> definition[i].k]

\* What plucking the i-th field of the called model's definition out of
\* the input does.
PluckOf(i) ==
    Pluck(Heap, CalledDefinition[i].v, CalledDefinition[i].k, data).out

Failing == {i \in 1..Len(CalledDefinition) : Thrown(PluckOf(i))}
FirstOf(S) == CHOOSE i \in S : \A j \in S : i <= j
FirstFailing == LET failing == Failing IN FirstOf(failing)

IsPluckOfCalled(ev) == ev.e = "pluck" /\ ev.model = CalledRef
\* The keys the called model plucked, in the order it plucked them.
PluckedKeys ==
    LET evs == SelectSeq(log, IsPluckOfCalled)
    IN [i \in 1..Len(evs) |-> evs[i].key]

NoPluck == \A j \in 1..Len(log) : log[j].e # "pluck"

ResultKeys == {outcome.v.props[j].k : j \in 1..Len(outcome.v.props)}

----------------------------------------------------------------------------
(* Properties of Model.validate *)

\* C1: when the input is object-typed and every field's pluck succeeds,
\* model(input) returns an object whose keys are exactly the definition keys
\* whose plucked value is not undefined, each holding the plucked value; no
\* other key of the input appears.
C1_ExactKeys ==
    (ModelCall /\ TypeOf(data) = "object" /\ Failing = {}) =>
        /\ outcome.k = "return"
        /\ outcome.v.t = "object"
        /\ Len(outcome.v.props) = Cardinality(ResultKeys)
        /\ ResultKeys =
              {CalledDefinition[i].k : i \in
                  {j \in 1..Len(CalledDefinition) : PluckOf(j).v # Undefined}}
        /\ \A i \in 1..Len(CalledDefinition) :
              PluckOf(i).v # Undefined =>
                  PropOf(outcome.v.props, CalledDefinition[i].k) = PluckOf(i).v

\* A call that returned {aKey: '1', c: {e: 3}} for an input that also holds
\* the keys b (null, blankable: omitted) and aKey (not a source key).
C1_Witness ==
    /\ ModelCall
    /\ data.t = "object"
    /\ HasKey(data.props, k_aKey)
    /\ HasKey(data.props, k_b)
    /\ outcome = Return(Obj(<<Prop(k_aKey, Str("1")),
                              Prop(k_c, Obj(<<Prop(k_e, Num(3))>>))>>))

\* A key-mapped field whose validator rejects undefined.
Required(f) ==
    /\ f.class = "MapField"
    /\ IsValidationError(Validate(Heap, f.validator, Undefined).out)

\* The first field that fails is the i-th and it is a required field whose
\* source key the input lacks.
MissingRequired(i) ==
    /\ Required(CalledDefinition[i].v)
    /\ ~HasKey(data.props,
               ToSourceKey(CalledDefinition[i].v, CalledDefinition[i].k))
    /\ \A j \in 1..(i - 1) : ~Thrown(PluckOf(j))

\* C2: when the source key of a required field is absent from the input
\* object and no earlier field fails, validation fails with a validation
\* error whose assertion is "an object with attribute '<sourceKey>', that is
\* <the validator's assertion>", <sourceKey> being the transformed key.
C2_MissingRequiredField ==
    (ModelCall /\ data.t = "object") =>
        \A i \in 1..Len(CalledDefinition) :
            MissingRequired(i) =>
                LET f == CalledDefinition[i].v
                    inner == Validate(Heap, f.validator, Undefined).out
                IN /\ IsValidationError(outcome)
                   /\ outcome.assertionMessage =
                         "an object with attribute '"
                             \o KeyText(ToSourceKey(f, CalledDefinition[i].k))
                             \o "', that is " \o inner.assertionMessage

\* The input holds aKey but not a_key, and the error names a_key.
C2_Witness ==
    /\ ModelCall
    /\ data.t = "object"
    /\ HasKey(data.props, k_aKey)
    /\ ~HasKey(data.props, k_a_key)
    /\ IsValidationError(outcome)
    /\ outcome.assertionMessage
          = "an object with attribute 'a_key', that is a string"

\* What the try block of Model.validate throws on the input: the type
\* check's error, or the error of the first pluck that fails.
TryBlockThrows == TypeOf(data) # "object" \/ Failing # {}
TryBlockError ==
    IF TypeOf(data) # "object"
    THEN ValidationError("an object", "Model.validate")
    ELSE PluckOf(FirstFailing)

\* C3: when the type check or a pluck throws a validation error with
\* assertion A, a model named N throws a named validation error with name N
\* and assertion A, whose message is "N expected A."; a model whose name is
\* null throws that very error.
C3_NamedRewrap ==
    (ModelCall /\ TryBlockThrows /\ IsValidationError(TryBlockError)) =>
        IF CalledModel.name # Null
        THEN /\ IsNamed(outcome)
             /\ outcome.name = CalledModel.name.s
             /\ outcome.assertionMessage = TryBlockError.assertionMessage
             /\ outcome.message =
                   CalledModel.name.s \o " expected "
                       \o TryBlockError.assertionMessage \o "."
        ELSE outcome = TryBlockError

C3_Witness ==
    /\ ModelCall
    /\ CalledModel.name = Str("MyClass")
    /\ IsNamed(outcome)
    /\ outcome.message =
          "MyClass expected an object with attribute 'd', that is an object with attribute 'e', that is a number."

\* C5: on a primitive or undefined input a model fails with assertion "an
\* object", rendered "Expected an object." or "<name> expected an object.",
\* and plucks no field, whatever its definition.
C5_PrimitiveInput ==
    (ModelCall /\ data \in Primitives \cup {Undefined}) =>
        /\ IsValidationError(outcome)
        /\ outcome.assertionMessage = "an object"
        /\ outcome.message =
              IF CalledModel.name = Null THEN "Expected an object."
              ELSE CalledModel.name.s \o " expected an object."
        /\ IsNamed(outcome) <=> CalledModel.name # Null
        /\ NoPluck

\* A named model with an empty definition called on a string.
C5_Witness ==
    /\ ModelCall
    /\ CalledDefinition = <<>>
    /\ data = Str("")
    /\ Thrown(outcome)
    /\ outcome.message = "MyClass expected an object."

\* C6: on null and on an array a model fails with the validation assertion
\* "an object" and plucks no field.
C6_NullAndArrayInput ==
    (ModelCall /\ (data = Null \/ IsArray(data))) =>
        /\ IsValidationError(outcome)
        /\ outcome.assertionMessage = "an object"
        /\ NoPluck

\* C7, within a call: the called model plucks a prefix of its definition's
\* keys in insertion order; when fields fail, it stops at the first failing
\* field and reports that field's error; otherwise it plucks them all.
PlucksInOrder ==
    (ModelCall /\ TypeOf(data) = "object") =>
        LET keys == KeysOf(CalledDefinition)
            n == Len(PluckedKeys)
        IN /\ n <= Len(keys)
           /\ PluckedKeys = SubSeq(keys, 1, n)
           /\ IF Failing = {} THEN n = Len(keys) /\ ~Thrown(outcome)
              ELSE /\ n = FirstFailing
                   /\ Thrown(outcome)
                   /\ outcome.message = ModelCatch(CalledModel.name,
                         Result(TryBlockError, <<>>)).out.message

\* The model the last extend() built, and what it was built from.
Extended == models[Len(models)]
ExtendedDefinition == defs[Extended.definition]
BaseDefinition == defs[models[built.base].definition]
PassedDefinition == defs[built.definition]
IsNotBaseKey(key) == ~HasKey(BaseDefinition, key)

\* C7, for an extended model: its definition's keys are the base's keys in
\* the base's order, then the extension's new keys in the extension's order.
ExtendedKeyOrder ==
    built.op = "extend" =>
        KeysOf(ExtendedDefinition) =
            KeysOf(BaseDefinition)
                \o SelectSeq(KeysOf(PassedDefinition), IsNotBaseKey)

C8_ExtendLeavesBase ==
    [][(built' # built /\ built'.op = "extend") =>
          /\ Len(models') = Len(models) + 1
          /\ built'.result = ModelRef(Len(models'))
          /\ \A i \in 1..Len(models) : models'[i] = models[i]
          /\ \A a \in 1..Len(defs) : defs'[a] = defs[a]
          /\ built'.extension.op = "model" =>
                /\ built'.extension.ref \in 1..Len(models)
                /\ built'.definition = models[built'.extension.ref].definition
          /\ built'.extension.op = "definition" =>
                defs'[built'.definition] \in RawExtensions
          /\ LET base == defs[models[built'.base].definition]
                 ext == defs'[built'.definition]
                 new == defs'[models'[Len(models')].definition]
             IN /\ {new[i].k : i \in 1..Len(new)} =
                      {base[i].k : i \in 1..Len(base)}
                          \cup {ext[i].k : i \in 1..Len(ext)}
                /\ Len(new) = Cardinality({new[i].k : i \in 1..Len(new)})
                /\ \A i \in 1..Len(new) :
                      new[i].v = IF HasKey(ext, new[i].k)
                                 THEN PropOf(ext, new[i].k)
                                 ELSE PropOf(base, new[i].k)
          /\ \A x \in Inputs :
                Validate(Heap', ModelRef(built'.base), x).out
                    = Validate(Heap, ModelRef(built'.base), x).out
      ]_vars

\* extend() was passed a raw definition whose key b the base defines too,
\* with another field: the new model holds the extension's field.
C8_Witness ==
    /\ built.op = "extend"
    /\ built.extension.op = "definition"
    /\ HasKey(BaseDefinition, k_b)
    /\ PropOf(BaseDefinition, k_b) = field(blankable(string))
    /\ PropOf(ExtendedDefinition, k_b) = field(number)
    /\ Len(ExtendedDefinition) = Len(BaseDefinition) + 1

\* The scope of a model's validation errors is its own name.
ScopedByOwnName ==
    (ModelCall /\ IsValidationError(outcome)) =>
        IF CalledModel.name = Null
        THEN /\ ~IsNamed(outcome)
             /\ outcome.message = "Expected " \o outcome.assertionMessage \o "."
        ELSE /\ IsNamed(outcome)
             /\ outcome.name = CalledModel.name.s
             /\ outcome.message =
                   CalledModel.name.s \o " expected "
                       \o outcome.assertionMessage \o "."

\* C9: the model extend() builds has the name passed to extend (null
\* included), not the base's nor the extension model's, and its validation
\* failures are scoped by that name only.
C9_ExtendScopesByOwnName ==
    /\ built.op = "extend" => Extended.name = built.name
    /\ ScopedByOwnName

\* A model extended with name null from a base named MyClass fails unscoped.
C9_Witness ==
    /\ ModelCall
    /\ CalledRef = 3
    /\ CalledModel.name = Null
    /\ models[2].name = Str("MyClass")
    /\ KeysOf(CalledDefinition) = KeysOf(defs[2]) \o <<k_d>>
    /\ outcome.k = "throw"
    /\ outcome.message
          = "Expected an object with attribute 'a_key', that is a string."

----------------------------------------------------------------------------
(* Properties of the combinators *)

Called == call # NoCall
IsDefectInvoked(ev) == ev.e = "invoke" /\ ev.v.op = "throwsError"
DefectsInvoked == SelectSeq(log, IsDefectInvoked)
OpsInvoked == {log[j].v.op : j \in {i \in 1..Len(log) : log[i].e = "invoke"}}
FieldClassesPlucked ==
    {PropOf(defs[models[log[j].model].definition], log[j].key).class :
        j \in {i \in 1..Len(log) : log[i].e = "pluck"}}

\* C4: once a leaf validator has thrown an error that is not a
\* ValidationError, the call throws that very error (same class, message and
\* constructing site), whatever wrapError, optional, nullable, blankable,
\* arrayOf, fields and named or unnamed models lie between the leaf and the
\* caller.
C4_DefectPropagates ==
    (Called /\ DefectsInvoked # <<>>) =>
        /\ Len(DefectsInvoked) = 1
        /\ outcome = Defect("Error", DefectsInvoked[1].v.message,
                            "throwsError")

\* The defect of badModel's field came up through a key-mapped field, an
\* unnamed model, a whole-object field, a named model, arrayOf, blankable,
\* nullable, a key-mapped field, an unnamed model, optional and wrapError.
C4_Witness ==
    /\ Called
    /\ call.validator = wrapError(optional(ModelRef(5)), "a message")
    /\ {"wrapError", "optional", "nullable", "blankable", "arrayOf",
        "model", "throwsError"} \subseteq OpsInvoked
    /\ FieldClassesPlucked = {"MapField", "MultiField"}
    /\ outcome = Defect("Error", "A non-parse error", "throwsError")

UnionCalled == Called /\ call.validator.op = "union"
OutcomeOfA == Validate(Heap, call.validator.a, data)
OutcomeOfB == Validate(Heap, call.validator.b, data)

\* C10: union(a, b) returns a's output on every input a accepts, without
\* invoking b; it returns b's output only when a failed with a validation
\* error and b accepts.
C10_UnionLeftBiased ==
    UnionCalled =>
        LET ra == OutcomeOfA
            rb == OutcomeOfB
        IN /\ ~Thrown(ra.out) =>
                 /\ outcome = ra.out
                 /\ log = <<InvokeEvent(call.validator, data)>> \o ra.log
           /\ (~Thrown(outcome) /\ Thrown(ra.out)) =>
                 /\ IsValidationError(ra.out)
                 /\ ~Thrown(rb.out)
                 /\ outcome = rb.out

\* Both ModelA and ModelB accept {a: 'asdf', b: 1234}; the union returned
\* ModelA's {a: 'asdf'} and never called ModelB.
C10_Witness ==
    /\ UnionCalled
    /\ call.validator = union(ModelRef(1), ModelRef(2))
    /\ ~Thrown(OutcomeOfB.out)
    /\ OutcomeOfB.out # OutcomeOfA.out
    /\ outcome = Return(Obj(<<Prop(k_a, Str("asdf"))>>))
    /\ \A j \in 1..Len(log) :
          log[j].e = "invoke" => log[j].v # ModelRef(2)

\* A validator has been called and has returned or thrown.
Invoked == call # NoCall /\ call.op = "validate"

\* The message the union gives for one failed alternative.
AlternativeMessage(e) ==
    IF e.class = "ValidationError.Named"
    THEN e.name \o ", that is " \o e.assertionMessage
    ELSE e.assertionMessage

\* C11: when a and b both fail with validation errors, union(a, b) throws a
\* plain ValidationError whose assertion is "<messageA>; or <messageB>", a's
\* message first; the message of a plain error is its assertion, that of a
\* named error "<name>, that is <assertion>".
C11_UnionBothFail ==
    (UnionCalled /\ IsValidationError(OutcomeOfA.out)
                 /\ IsValidationError(OutcomeOfB.out)) =>
        /\ Thrown(outcome)
        /\ outcome.class = "ValidationError"
        /\ outcome.assertionMessage =
              AlternativeMessage(OutcomeOfA.out) \o "; or "
                  \o AlternativeMessage(OutcomeOfB.out)
        /\ outcome.message = "Expected " \o outcome.assertionMessage \o "."

\* union(ModelA, ModelB) on {a: 1234, b: 'asdf'}.
C11_Witness ==
    /\ UnionCalled
    /\ call.validator = union(ModelRef(1), ModelRef(2))
    /\ Thrown(outcome)
    /\ outcome.message =
          "Expected ModelA, that is an object with attribute 'a', that is a string; or ModelB, that is an object with attribute 'b', that is a number."

\* C12: in union(a, b), an error of a that is not a validation error is
\* thrown at once, b not being invoked, whatever b would do on the input; an
\* error of b that is not a validation error, after a failed with a
\* validation error, is thrown unchanged, not a combined message; on an
\* input a accepts nothing thrown by b is seen.
C12_UnionDefects ==
    UnionCalled =>
        LET ra == OutcomeOfA
            rb == OutcomeOfB
        IN /\ (Thrown(ra.out) /\ ~IsValidationError(ra.out)) =>
                 /\ outcome = ra.out
                 /\ log = <<InvokeEvent(call.validator, data)>> \o ra.log
           /\ (IsValidationError(ra.out)
                 /\ Thrown(rb.out) /\ ~IsValidationError(rb.out)) =>
                 outcome = rb.out
           /\ ~Thrown(ra.out) => ~Thrown(outcome)

\* union(() => { throw new Error('Test error'); }, ModelA) on {a: 'asdf'},
\* which ModelA accepts.
C12_Witness ==
    /\ UnionCalled
    /\ call.validator = union(throwsError("Test error"), ModelRef(1))
    /\ ~Thrown(OutcomeOfB.out)
    /\ outcome = Defect("Error", "Test error", "throwsError")
    /\ Len(log) = 2

IntersectCalled == Invoked /\ call.validator.op = "intersect"
InvokeOfCalled == <<InvokeEvent(call.validator, data)>>
PropKeys(props) == {props[j].k : j \in 1..Len(props)}

\* C13, as claimed: intersect(a, b) invokes both a and b on the input
\* whatever a does; when a fails, b has been attempted all the same and the
\* error thrown is a's.
C13_IntersectRunsBoth ==
    IntersectCalled =>
        /\ log = InvokeOfCalled \o OutcomeOfA.log \o OutcomeOfB.log
        /\ Thrown(OutcomeOfA.out) => outcome = OutcomeOfA.out

\* C13, amended: intersect(a, b) invokes a on the input first and b, on the
\* same input, only once a has returned; when a fails b is not invoked and
\* the error thrown is a's.
C13_IntersectRunsInOrder ==
    IntersectCalled =>
        /\ Thrown(OutcomeOfA.out) =>
              /\ outcome = OutcomeOfA.out
              /\ log = InvokeOfCalled \o OutcomeOfA.log
        /\ ~Thrown(OutcomeOfA.out) =>
              log = InvokeOfCalled \o OutcomeOfA.log \o OutcomeOfB.log

\* intersect(ModelA, ModelB) on {a: 1234, b: 'asdf'}: ModelA's error, and
\* ModelB, which would fail too, was never invoked.
C13_Witness ==
    /\ IntersectCalled
    /\ call.validator = intersect(ModelRef(1), ModelRef(2))
    /\ Thrown(OutcomeOfB.out)
    /\ Thrown(outcome)
    /\ outcome.message =
          "ModelA expected an object with attribute 'a', that is a string."
    /\ \A j \in 1..Len(log) :
          log[j].e = "invoke" => log[j].v # ModelRef(2)

\* C14: when a and b both accept, intersect(a, b) returns an object with
\* the keys of a's result and of b's result, each once, holding b's value
\* on a key of b's result and a's value on the others; when a fails a's
\* error is thrown as it is, and when a accepts and b fails, b's error is.
C14_IntersectMerges ==
    IntersectCalled =>
        LET ra == OutcomeOfA.out
            rb == OutcomeOfB.out
        IN IF Thrown(ra) THEN outcome = ra
           ELSE IF Thrown(rb) THEN outcome = rb
           ELSE /\ ~Thrown(outcome)
                /\ outcome.v.t = "object"
                /\ PropKeys(outcome.v.props) =
                      PropKeys(ra.v.props) \cup PropKeys(rb.v.props)
                /\ Len(outcome.v.props) = Cardinality(PropKeys(outcome.v.props))
                /\ \A key \in PropKeys(outcome.v.props) :
                      PropOf(outcome.v.props, key) =
                          IF key \in PropKeys(rb.v.props)
                          THEN PropOf(rb.v.props, key)
                          ELSE PropOf(ra.v.props, key)

\* intersect(ModelA, ModelC) on {a: 'asdf', b: 1234}: ModelA returns
\* {a: 'asdf'}, ModelC returns {a: 1234}, the intersection {a: 1234}.
C14_Witness ==
    /\ IntersectCalled
    /\ call.validator = intersect(ModelRef(1), ModelRef(6))
    /\ OutcomeOfA.out = Return(Obj(<<Prop(k_a, Str("asdf"))>>))
    /\ OutcomeOfB.out = Return(Obj(<<Prop(k_a, Num(1234))>>))
    /\ outcome = Return(Obj(<<Prop(k_a, Num(1234))>>))

ArrayOfCalled == Invoked /\ call.validator.op = "arrayOf"
\* What the element validator does on the i-th element of the input.
ElementOutcome(i) == Validate(Heap, call.validator.validator, data.elems[i])
Rejected == {i \in 1..Len(data.elems) : Thrown(ElementOutcome(i).out)}
\* The invocations made for the first n elements.
RECURSIVE ElementLogs(_)
ElementLogs(n) ==
    IF n = 0 THEN <<>> ELSE ElementLogs(n - 1) \o ElementOutcome(n).log

\* C15: arrayOf(v) fails with assertion "an array" on an input that is not an
\* array, without invoking v; on an array whose elements v all accepts ([]
\* too) it returns the array of v's outputs in index order; on an array whose
\* first element v rejects is at index i it fails with assertion "an array
\* with value at [i], that is <v's assertion>", and v is invoked on the
\* elements up to i only.
C15_ArrayOf ==
    ArrayOfCalled =>
        IF ~IsArray(data)
        THEN /\ Thrown(outcome)
             /\ outcome.class = "ValidationError"
             /\ outcome.assertionMessage = "an array"
             /\ log = InvokeOfCalled
        ELSE IF Rejected = {}
        THEN /\ outcome = Return(Arr([i \in 1..Len(data.elems) |->
                                         ElementOutcome(i).out.v]))
             /\ log = InvokeOfCalled \o ElementLogs(Len(data.elems))
        ELSE LET i == FirstOf(Rejected)
                 inner == ElementOutcome(i).out
             IN /\ log = InvokeOfCalled \o ElementLogs(i)
                /\ IsValidationError(inner) =>
                      /\ Thrown(outcome)
                      /\ outcome.class = "ValidationError"
                      /\ outcome.assertionMessage =
                            "an array with value at [" \o ToString(i - 1)
                                \o "], that is " \o inner.assertionMessage

\* arrayOf(number) on [1, 'x', null]: the elements at 1 and 2 are invalid,
\* the error names 1 and number was never given null.
C15_Witness ==
    /\ ArrayOfCalled
    /\ call.validator = arrayOf(number)
    /\ data = Arr(<<Num(1), Str("x"), Null>>)
    /\ Rejected = {2, 3}
    /\ Thrown(outcome)
    /\ outcome.message = "Expected an array with value at [1], that is a number."
    /\ \A j \in 1..Len(log) : log[j].e = "invoke" => log[j].x # Null

\* What the wrapped validator does on the input.
OutcomeOfWrapped == Validate(Heap, call.validator.validator, data)

\* The value v is let through without a call of the wrapped validator; any
\* other input goes to the wrapped validator, whose result is returned
\* unchanged and whose validation failure is rethrown under the prefix.
PassesExcept(v, prefix) ==
    IF data = v
    THEN outcome = Return(v) /\ log = InvokeOfCalled
    ELSE LET r == OutcomeOfWrapped
         IN /\ log = InvokeOfCalled \o r.log
            /\ ~Thrown(r.out) => outcome = r.out
            /\ IsValidationError(r.out) =>
                  /\ IsValidationError(outcome)
                  /\ outcome.assertionMessage =
                        prefix \o " " \o r.out.assertionMessage

\* C16: optional(v) returns undefined on undefined and nullable(v) returns
\* null on null, neither invoking v; every other input (null for optional,
\* undefined for nullable) is passed to v, whose result is returned unchanged
\* and whose validation failure with assertion A is rethrown with assertion
\* "undefined or A" (optional), "null or A" (nullable).
C16_OptionalNullable ==
    /\ (Invoked /\ call.validator.op = "optional") =>
          PassesExcept(Undefined, "undefined or")
    /\ (Invoked /\ call.validator.op = "nullable") =>
          PassesExcept(Null, "null or")

\* optional(string) on null: null went to string.
C16_Witness ==
    /\ Invoked
    /\ call.validator = optional(string)
    /\ data = Null
    /\ log = <<InvokeEvent(optional(string), Null), InvokeEvent(string, Null)>>
    /\ Thrown(outcome)
    /\ outcome.message = "Expected undefined or a string."

\* The value the input object holds for the source key of the i-th field
\* of the called model; undefined when it holds none.
SourceValue(i) ==
    LET sourceKey == ToSourceKey(CalledDefinition[i].v, CalledDefinition[i].k)
    IN IF HasKey(data.props, sourceKey) THEN PropOf(data.props, sourceKey)
       ELSE Undefined

\* The key-mapped fields of the called model whose validator is made by op.
FieldsOf(op) ==
    {i \in 1..Len(CalledDefinition) :
        /\ CalledDefinition[i].v.class = "MapField"
        /\ CalledDefinition[i].v.validator.op = op}

\* C17: blankable(v) returns undefined on null and on undefined without
\* invoking v, and rethrows v's validation failure on another input with
\* assertion "null, undefined, or <v's assertion>"; a model's result lacks
\* the key of a blankable field whose source value is null or absent, holds
\* null under the key of a nullable field whose source value is null, and
\* never holds undefined under any key.
C17_Blankable ==
    /\ (Invoked /\ call.validator.op = "blankable") =>
          IF data \in {Null, Undefined}
          THEN outcome = Return(Undefined) /\ log = InvokeOfCalled
          ELSE LET r == OutcomeOfWrapped
               IN /\ log = InvokeOfCalled \o r.log
                  /\ ~Thrown(r.out) => outcome = r.out
                  /\ IsValidationError(r.out) =>
                        /\ IsValidationError(outcome)
                        /\ outcome.assertionMessage =
                              "null, undefined, or "
                                  \o r.out.assertionMessage
    /\ (ModelCall /\ ~Thrown(outcome)) =>
          /\ \A j \in 1..Len(outcome.v.props) :
                outcome.v.props[j].v # Undefined
          /\ data.t = "object" =>
                /\ \A i \in FieldsOf("blankable") :
                      SourceValue(i) \in {Null, Undefined} =>
                          CalledDefinition[i].k \notin ResultKeys
                /\ \A i \in FieldsOf("nullable") :
                      SourceValue(i) = Null =>
                          /\ CalledDefinition[i].k \in ResultKeys
                          /\ PropOf(outcome.v.props, CalledDefinition[i].k)
                                = Null

\* model(null, {a: field(blankable(string)), b: field(nullable(number))}) on
\* {a: null, b: null} returns {b: null}.
C17_Witness ==
    /\ ModelCall
    /\ CalledRef = 7
    /\ data = Obj(<<Prop(k_a, Null), Prop(k_b, Null)>>)
    /\ outcome = Return(Obj(<<Prop(k_b, Null)>>))

\* The key the claim has a key-mapped field read for a requested key.
SourceKeyClaimed(f, key) ==
    IF f.toSourceKey = "snake" THEN snake(key)
    ELSE IF f.toSourceKey = "() => key" THEN f.key
    ELSE key

\* The i-th field of the called model is key-mapped and was plucked: no
\* field before it failed.
KeyMappedPlucked(i) ==
    /\ CalledDefinition[i].v.class = "MapField"
    /\ \A j \in 1..(i - 1) : ~Thrown(PluckOf(j))

\* C18: a key-mapped field asked for requestedKey reads source[sourceKey],
\* sourceKey being requestedKey for field(v), the constant key for
\* fieldWithKey(key, v) and snake(requestedKey) for fieldFromSnake(v); an
\* absent sourceKey gives v undefined; v's result is the field's value
\* unchanged, and v's validation failure with assertion A is rethrown with
\* assertion "an object with attribute '<sourceKey>', that is A".
C18_KeyMappedPluck ==
    (ModelCall /\ data.t = "object") =>
        \A i \in 1..Len(CalledDefinition) :
            KeyMappedPlucked(i) =>
                LET f == CalledDefinition[i].v
                    key == CalledDefinition[i].k
                    sourceKey == SourceKeyClaimed(f, key)
                    value == IF HasKey(data.props, sourceKey)
                             THEN PropOf(data.props, sourceKey)
                             ELSE Undefined
                    r == Validate(Heap, f.validator, value).out
                IN /\ \E n \in 1..(Len(log) - 1) :
                         /\ log[n] = PluckEvent(CalledRef, key)
                         /\ log[n + 1] = InvokeEvent(f.validator, value)
                   /\ (~Thrown(r) /\ ~Thrown(outcome)) =>
                         IF r.v = Undefined THEN key \notin ResultKeys
                         ELSE /\ key \in ResultKeys
                              /\ PropOf(outcome.v.props, key) = r.v
                   /\ IsValidationError(r) =>
                         /\ IsValidationError(outcome)
                         /\ outcome.assertionMessage =
                               "an object with attribute '"
                                   \o KeyText(sourceKey) \o "', that is "
                                   \o r.assertionMessage

\* The outer model on an input that holds aKey: 7, a_key: '1' and
\* d: {e: 2} and no b: aKey is read from a_key, c from d, b is absent.
C18_Witness ==
    /\ ModelCall
    /\ CalledRef = 2
    /\ data.t = "object"
    /\ data.props = <<Prop(k_aKey, Num(7)), Prop(k_a_key, Str("1")),
                      Prop(k_d, Obj(<<Prop(k_e, Num(2))>>))>>
    /\ outcome = Return(Obj(<<Prop(k_aKey, Str("1")),
                              Prop(k_c, Obj(<<Prop(k_e, Num(3))>>))>>))

\* The i-th field of the called model is a whole-object field and was
\* plucked: no field before it failed.
WholeObjectPlucked(i) ==
    /\ CalledDefinition[i].v.class = "MultiField"
    /\ \A j \in 1..(i - 1) : ~Thrown(PluckOf(j))

\* C19: a whole-object field passes the whole source object to its
\* validator v, whatever the requested key; v's result is the value of the
\* requested key in the enclosing model's result; an error of v reaches the
\* enclosing model as thrown, with no "an object with attribute" prefix: an
\* unnamed enclosing model throws that very error (a nested model's named
\* error too), a named one keeps its assertion.
C19_WholeObjectPluck ==
    (ModelCall /\ TypeOf(data) = "object") =>
        \A i \in 1..Len(CalledDefinition) :
            WholeObjectPlucked(i) =>
                LET f == CalledDefinition[i].v
                    key == CalledDefinition[i].k
                    r == Validate(Heap, f.validator, data).out
                IN /\ \E n \in 1..(Len(log) - 1) :
                         /\ log[n] = PluckEvent(CalledRef, key)
                         /\ log[n + 1] = InvokeEvent(f.validator, data)
                   /\ (~Thrown(r) /\ ~Thrown(outcome)) =>
                         IF r.v = Undefined THEN key \notin ResultKeys
                         ELSE /\ key \in ResultKeys
                              /\ PropOf(outcome.v.props, key) = r.v
                   /\ Thrown(r) =>
                         IF CalledModel.name = Null \/ ~IsValidationError(r)
                         THEN outcome = r
                         ELSE /\ IsValidationError(outcome)
                              /\ outcome.assertionMessage = r.assertionMessage

\* model(null, {c: multiField(ModelC), a: ...}) on {a: 'asdf'}: ModelC's
\* named error comes out as ModelC threw it.
C19_Witness ==
    /\ ModelCall
    /\ CalledRef = 8
    /\ data = Obj(<<Prop(k_a, Str("asdf"))>>)
    /\ IsNamed(outcome)
    /\ outcome.site = "Model.validate"
    /\ outcome.message =
          "ModelC expected an object with attribute 'b', that is a number."

IsLazyInvoked(ev) == ev.e = "invoke" /\ ev.v.op = "lazy"
IsDeferredCalled(ev) == ev.e = "deferred"

\* C20: building lazy(deferred) calls nothing; every invocation of the
\* validator it returns calls deferred, once, and applies the validator
\* deferred returns to the input, whose result or error is the outcome
\* unchanged; nothing is kept between invocations, so the calls of deferred
\* are as many as the invocations.
C20_Lazy ==
    /\ (call # NoCall /\ call.op = "lazy") =>
          /\ log = <<>>
          /\ outcome = Return(Fn(call.validator))
    /\ Invoked =>
          /\ \A j \in 1..Len(log) :
                IsLazyInvoked(log[j]) =>
                    /\ j < Len(log)
                    /\ log[j + 1] = DeferredEvent(log[j].v.deferred)
          /\ Len(SelectSeq(log, IsDeferredCalled))
                = Len(SelectSeq(log, IsLazyInvoked))
    /\ (Invoked /\ call.validator.op = "lazy"
               /\ call.validator.deferred.k = "returns") =>
          LET r == Validate(Heap, call.validator.deferred.validator, data)
          IN /\ outcome = r.out
             /\ log = InvokeOfCalled
                        \o <<DeferredEvent(call.validator.deferred)>>
                        \o r.log

\* arrayOf(lazy(() => string)) on ['x', 1]: two invocations of the lazy
\* validator, two calls of the deferred function.
C20_Witness ==
    /\ Invoked
    /\ call.validator = arrayOf(lazy(Returns(string)))
    /\ data = Arr(<<Str("x"), Num(1)>>)
    /\ Len(SelectSeq(log, IsLazyInvoked)) = 2
    /\ Len(SelectSeq(log, IsDeferredCalled)) = 2
    /\ Thrown(outcome)
    /\ outcome.message = "Expected an array with value at [1], that is a string."

----------------------------------------------------------------------------
(* Properties of wrapError and of the errors *)

WrapErrorCalled == Invoked /\ call.validator.op = "wrapError"

\* C21: wrapError(v, prefix) returns v's result unchanged when v succeeds
\* and, when v fails with a validation error with assertion A, throws a
\* ValidationError with assertion "<prefix> <A>"; nested wrappers put the
\* outermost prefix first.
C21_WrapError ==
    WrapErrorCalled =>
        LET r == OutcomeOfWrapped.out
        IN /\ ~Thrown(r) => outcome = r
           /\ IsValidationError(r) =>
                 /\ Thrown(outcome)
                 /\ outcome.class = "ValidationError"
                 /\ outcome.assertionMessage =
                       call.validator.error \o " " \o r.assertionMessage

\* wrapError(optional(number), 'a message') on 'asdf': the outer prefix, the
\* inner prefix, then number's assertion.
C21_Witness ==
    /\ WrapErrorCalled
    /\ call.validator = wrapError(optional(number), "a message")
    /\ data = Str("asdf")
    /\ Thrown(outcome)
    /\ outcome.message = "Expected a message undefined or a number."

\* C22: a ValidationError built with assertion A has assertionMessage A and
\* message "Expected A."; a named one built with name N and assertion A has
\* name N, assertionMessage A and message "N expected A." and is a
\* ValidationError too: wrapError catches it as it catches a plain one.
C22_ErrorMessages ==
    /\ (Invoked /\ Thrown(outcome) /\ outcome.class = "ValidationError") =>
          outcome.message = "Expected " \o outcome.assertionMessage \o "."
    /\ (Invoked /\ Thrown(outcome)
               /\ outcome.class = "ValidationError.Named") =>
          outcome.message =
              outcome.name \o " expected " \o outcome.assertionMessage \o "."
    /\ (Invoked /\ call.validator = throwsValidationError("we deserve")) =>
          /\ outcome.class = "ValidationError"
          /\ outcome.assertionMessage = "we deserve"
    /\ (ModelCall /\ Thrown(outcome) /\ CalledModel.name # Null
                  /\ outcome.class # "Error" /\ outcome.class # "TypeError") =>
          /\ outcome.class = "ValidationError.Named"
          /\ outcome.name = CalledModel.name.s
    /\ (WrapErrorCalled /\ Thrown(OutcomeOfWrapped.out)
                        /\ OutcomeOfWrapped.out.class
                              = "ValidationError.Named") =>
          /\ outcome.class = "ValidationError"
          /\ outcome.assertionMessage =
                call.validator.error \o " "
                    \o OutcomeOfWrapped.out.assertionMessage

\* wrapError(ModelA, 'a message') on {b: 1234}: ModelA's named error was
\* caught and rewritten.
C22_Witness ==
    /\ WrapErrorCalled
    /\ call.validator = wrapError(ModelRef(1), "a message")
    /\ data = Obj(<<Prop(k_b, Num(1234))>>)
    /\ OutcomeOfWrapped.out.message =
          "ModelA expected an object with attribute 'a', that is a string."
    /\ outcome.message =
          "Expected a message an object with attribute 'a', that is a string."

EnumOfCalled == Invoked /\ call.validator.op = "enumOf"
EnumValues == {call.validator.enum[i].v : i \in 1..Len(call.validator.enum)}

\* C23: enumOf(enumValues) fails with assertion "a string" on an input that
\* is not a string, with assertion "a value in the enum" on a string (the
\* empty one too) that is none of the enum's values, and returns any other
\* input unchanged.
C23_EnumOf ==
    EnumOfCalled =>
        IF data.t # "string"
        THEN /\ IsValidationError(outcome)
             /\ outcome.assertionMessage = "a string"
        ELSE IF data \notin EnumValues
        THEN /\ IsValidationError(outcome)
             /\ outcome.assertionMessage = "a value in the enum"
        ELSE outcome = Return(data)

\* enumOf(Value) on '': a string, not a value of the enum.
C23_Witness ==
    /\ EnumOfCalled
    /\ call.validator = enumOf(Value)
    /\ data = Str("")
    /\ Thrown(outcome)
    /\ outcome.message = "Expected a value in the enum."

----------------------------------------------------------------------------
(* Calls keep no state *)

\* The inner and the outer model as they were when they were built, alone.
FreshHeap ==
    [defs |-> <<InnerDefinition, OuterDefinition(1)>>,
     models |-> <<NewModelObject(Null, 1),
                  NewModelObject(models[2].name, 2)>>]

----------------------------------------------------------------------------
(* Round trip *)

LeafReturnsInput(v) == v.op \in {"string", "number", "boolean", "identity"}
\* A validator that returns every input it accepts unchanged.
ReturnsInput(v) ==
    \/ LeafReturnsInput(v)
    \/ v.op \in {"optional", "nullable"} /\ LeafReturnsInput(v.validator)

\* Every field of the definition is field(v) with such a validator.
IsRoundTripDefinition(definition) ==
    \A i \in 1..Len(definition) :
        /\ definition[i].v.class = "MapField"
        /\ definition[i].v.toSourceKey = "key => key"
        /\ ReturnsInput(definition[i].v.validator)

\* The called model is such a model and the input is an object that holds
\* exactly the defined keys, each with a value its validator accepts.
RoundTripCall ==
    /\ ModelCall
    /\ IsRoundTripDefinition(CalledDefinition)
    /\ data.t = "object"
    /\ PropKeys(data.props) = PropKeys(CalledDefinition)
    /\ Failing = {}

\* The outcome is an object with the keys and the values of the input.
ReturnsEqualObject ==
    /\ ~Thrown(outcome)
    /\ outcome.v.t = "object"
    /\ PropKeys(outcome.v.props) = PropKeys(data.props)
    /\ Len(outcome.v.props) = Cardinality(PropKeys(outcome.v.props))
    /\ \A key \in PropKeys(data.props) :
          PropOf(outcome.v.props, key) = PropOf(data.props, key)

\* C26, as claimed: a model whose fields are all field(v) with validators
\* that return their input, given an object that holds exactly the defined
\* keys with valid values, returns an object with the same keys and values.
C26_RoundTrip == RoundTripCall => ReturnsEqualObject

NoUndefinedValue ==
    \A j \in 1..Len(data.props) : data.props[j].v # Undefined

\* C26, amended: ... with valid values none of which is undefined ...
C26_RoundTripDefined ==
    (RoundTripCall /\ NoUndefinedValue) => ReturnsEqualObject

\* model(null, {b: field(number), a: field(optional(string))}) on
\* {a: 'asdf', b: 1234} returns {b: 1234, a: 'asdf'}, built key by key in
\* the definition's order.
C26_Witness ==
    /\ RoundTripCall
    /\ CalledRef = 9
    /\ data = Obj(<<Prop(k_a, Str("asdf")), Prop(k_b, Num(1234))>>)
    /\ outcome = Return(Obj(<<Prop(k_b, Num(1234)), Prop(k_a, Str("asdf"))>>))

----------------------------------------------------------------------------
(* Properties of snake *)

SnakeCalled == call # NoCall /\ call.op = "snake"

\* What the i-th character of a key becomes.
SnakePiece(key, i) ==
    IF i = 1 THEN <<ToLowerCase(key[1])>>
    ELSE IF IsUpper(key[i]) THEN <<"_", ToLowerCase(key[i])>>
    ELSE IF IsDigit(key[i]) /\ (i = 2 \/ ~IsDigit(key[i - 1]))
    THEN <<"_", key[i]>>
    ELSE <<key[i]>>

RECURSIVE SnakePieces(_, _)
SnakePieces(key, n) ==
    IF n = 0 THEN <<>> ELSE SnakePieces(key, n - 1) \o SnakePiece(key, n)

\* C27: snake(key) lower-cases the first character and puts no underscore
\* before it; in the rest of the key it replaces every uppercase letter by
\* '_' and its lowercase form and every maximal run of digits by '_' and
\* the run, and keeps every other character; the empty key gives the empty
\* key.
C27_Snake ==
    SnakeCalled =>
        /\ outcome = Return(StrOf(SnakePieces(data.chars, Len(data.chars))))
        /\ data.s = "" => outcome.v.s = ""
        /\ data.s = "BBBB" => outcome.v.s = "b_b_b_b"
        /\ data.s = "aB11" => outcome.v.s = "a_b_11"
        /\ data.s = "a_a" => outcome.v.s = "a_a"
        /\ data.s = "a a" => outcome.v.s = "a a"
        /\ data.s = "11a1" => outcome.v.s = "1_1a_1"

\* snake('aB11') is 'a_b_11'.
C27_Witness ==
    /\ SnakeCalled
    /\ data.s = "aB11"
    /\ outcome = Return(StrOf(<<"a", "_", "b", "_", "1", "1">>))

\* C30, as claimed: snake(snake(k)) = snake(k) for every key k.
C30_SnakeIdempotent ==
    SnakeCalled => snake(outcome.v.chars) = outcome.v.chars

DigitAfterFirst(key) == \E i \in 2..Len(key) : IsDigit(key[i])

\* C30, amended: snake(snake(k)) = snake(k) for every key k that holds no
\* digit after its first character.
C30_SnakeIdempotentWithoutDigits ==
    (SnakeCalled /\ ~DigitAfterFirst(data.chars)) =>
        snake(outcome.v.chars) = outcome.v.chars

\* snake('aBa') is 'a_ba', and snake('a_ba') is 'a_ba'.
C30_Witness ==
    /\ SnakeCalled
    /\ data.s = "aBa"
    /\ outcome.v.s = "a_ba"
    /\ KeyText(snake(outcome.v.chars)) = "a_ba"

----------------------------------------------------------------------------
(* Properties of date *)

DateCalled == call # NoCall /\ call.op = "date"

\* The input is the string 'YYYY-MM-DD' of the day d of the month m of the
\* year y, a day of the calendar.
IsDateString(y, m, d) ==
    /\ data.t = "string"
    /\ data.chars = FormatDate(y, m, d)
    /\ m \in 1..12
    /\ d >= 1
    /\ d <= DaysInMonth(y, m)

\* C28: date(value) accepts exactly the strings that match YYYY-MM-DD and
\* name a day of the calendar, returning a Date on that day at hour 0; every
\* other input fails with assertion "a date formatted string".
C28_DateAtMidnight ==
    DateCalled =>
        IF \E y \in Years, m \in 1..12, d \in 1..31 : IsDateString(y, m, d)
        THEN \E y \in Years, m \in 1..12, d \in 1..31 :
                /\ IsDateString(y, m, d)
                /\ outcome = Return(DateOf(y, m, d, 0))
        ELSE /\ IsValidationError(outcome)
             /\ outcome.assertionMessage = "a date formatted string"

----------------------------------------------------------------------------
(* Names of named errors *)

PrefixOf(v) ==
    CASE v.op = "wrapError" -> v.error
      [] v.op = "optional" -> "undefined or"
      [] v.op = "nullable" -> "null or"
      [] v.op = "blankable" -> "null, undefined, or"

\* The inputs a wrapper lets through without calling its validator.
LetsThrough(v, x) ==
    CASE v.op = "wrapError" -> FALSE
      [] v.op = "optional" -> StrictlyUndefined(x)
      [] v.op = "nullable" -> StrictlyNull(x)
      [] v.op = "blankable" -> StrictlyUndefined(x) \/ StrictlyNull(x)

\* The first field of the called model that fails, and what its validator
\* threw on the value of its source key.
FailingField == CalledDefinition[FirstFailing].v
FailingFieldError ==
    Validate(Heap, FailingField.validator,
             GetProperty(data,
                         ToSourceKey(FailingField,
                                     CalledDefinition[FirstFailing].k)).v).out

\* C29: a prefixing wrapper (the validator of a key-mapped field, optional,
\* nullable, blankable, wrapError, arrayOf) whose validator throws a named
\* error with name N and assertion A throws a plain ValidationError with
\* assertion "<prefix> A", without N; a named model throws every validation
\* error under its own name; an unnamed model throws a named error only
\* when it came through a whole-object field.
C29_NamesDropped ==
    /\ (Invoked /\ call.validator.op \in
                     {"wrapError", "optional", "nullable", "blankable"}
               /\ ~LetsThrough(call.validator, data)
               /\ IsNamed(OutcomeOfWrapped.out)) =>
          /\ outcome.class = "ValidationError"
          /\ outcome.message =
                "Expected " \o PrefixOf(call.validator) \o " "
                    \o OutcomeOfWrapped.out.assertionMessage \o "."
    /\ (ArrayOfCalled /\ IsArray(data) /\ Rejected # {}
                      /\ IsNamed(ElementOutcome(FirstOf(Rejected)).out)) =>
          LET i == FirstOf(Rejected) IN
              /\ outcome.class = "ValidationError"
              /\ outcome.message =
                    "Expected an array with value at [" \o ToString(i - 1)
                        \o "], that is "
                        \o ElementOutcome(i).out.assertionMessage \o "."
    /\ (ModelCall /\ TypeOf(data) = "object" /\ data # Null
                  /\ Failing # {}
                  /\ FailingField.class = "MapField"
                  /\ IsNamed(FailingFieldError)) =>
              LET assertion ==
                      "an object with attribute '"
                          \o KeyText(ToSourceKey(FailingField,
                                                 CalledDefinition[FirstFailing].k))
                          \o "', that is "
                          \o FailingFieldError.assertionMessage
              IN outcome.message =
                    IF CalledModel.name = Null
                    THEN "Expected " \o assertion \o "."
                    ELSE CalledModel.name.s \o " expected " \o assertion
                             \o "."
    /\ (ModelCall /\ IsValidationError(outcome)) =>
          IF CalledModel.name # Null
          THEN IsNamed(outcome) /\ outcome.name = CalledModel.name.s
          ELSE \/ ~IsNamed(outcome)
               \/ /\ TypeOf(data) = "object"
                  /\ Failing # {}
                  /\ FailingField.class = "MultiField"

\* Parent, whose field c reads ModelA from d, on {d: [{}]}: the message
\* names Parent and not ModelA.
C29_Witness ==
    /\ ModelCall
    /\ CalledRef = 10
    /\ data = Obj(<<Prop(k_d, Arr(<<Obj(<<>>)>>))>>)
    /\ FailingFieldError.message =
          "ModelA expected an object with attribute 'a', that is a string."
    /\ outcome.message =
          "Parent expected an object with attribute 'd', that is an object with attribute 'a', that is a string."

----------------------------------------------------------------------------
(* Validation calls, one validator invocation at a time *)

\* The invocations the engine lets a call nest before it throws a
\* RangeError.
MaxDepth == 10

k_children == <<"c", "h", "i", "l", "d", "r", "e", "n">>
k_self == <<"s", "e", "l", "f">>
k_ping == <<"p", "i", "n", "g">>
k_pong == <<"p", "o", "n", "g">>

\* const Tree = model('Tree', {children: field(arrayOf(lazy(() => Tree)))})
TreeDefinition ==
    <<Prop(k_children, field(arrayOf(lazy(Returns(ModelRef(1))))))>>
\* const Loop = model('Loop', {self: multiField(lazy(() => Loop))})
LoopDefinition == <<Prop(k_self, multiField(lazy(Returns(ModelRef(2)))))>>
\* const Ping = model({pong: multiField(lazy(() => Pong))})
PingDefinition == <<Prop(k_pong, multiField(lazy(Returns(ModelRef(4)))))>>
\* const Pong = model({ping: field(optional(lazy(() => Ping)))})
PongDefinition ==
    <<Prop(k_ping, field(optional(lazy(Returns(ModelRef(3))))))>>

RecursiveDefinitions ==
    <<TreeDefinition, LoopDefinition, PingDefinition, PongDefinition>>
RecursiveModels ==
    <<NewModelObject(Str("Tree"), 1), NewModelObject(Str("Loop"), 2),
      NewModelObject(Null, 3), NewModelObject(Null, 4)>>

\* The validators a caller has at hand.
RecursiveValidators ==
    {ModelRef(r) : r \in 1..4}
        \cup {number, lazy(Returns(ModelRef(1))), arrayOf(ModelRef(1)),
              optional(ModelRef(2)), optional(ModelRef(4))}

Leaf == Obj(<<Prop(k_children, Arr(<<>>))>>)
TreeOf(children) == Obj(<<Prop(k_children, Arr(children))>>)
RecursiveInputs ==
    {Undefined, Null, Num(1), Obj(<<>>), Arr(<<>>), Leaf,
     TreeOf(<<Leaf>>), TreeOf(<<Leaf, Leaf>>), TreeOf(<<TreeOf(<<Leaf>>)>>),
     TreeOf(<<Leaf, Num(1)>>), Arr(<<Leaf, TreeOf(<<Leaf>>)>>),
     Obj(<<Prop(k_ping, Undefined)>>), Obj(<<Prop(k_ping, Num(1))>>),
     Obj(<<Prop(k_ping, Obj(<<>>))>>)}

\* An invocation validator(value) in progress: i counts the validator calls
\* it has made (the elements an arrayOf has mapped, the fields a model has
\* plucked), acc holds their results.
Frame(v, x) == [v |-> v, x |-> x, i |-> 0, acc |-> <<>>]

StackOverflow ==
    Defect("RangeError", "Maximum call stack size exceeded", "engine")

InitR ==
    /\ defs = RecursiveDefinitions
    /\ models = RecursiveModels
    /\ built = [op |-> "model", name |-> Null, definition |-> 4,
                result |-> ModelRef(4)]
    /\ call = NoCall
    /\ data = Undefined
    /\ outcome = NoOutcome
    /\ log = <<>>

Running == call # NoCall /\ call.op = "run"
Top == call.stack[Len(call.stack)]

\* A pluck that hands the whole object to the validator of every field.
FieldInputWhole(f, key, x) == Return(x)

\* What a field hands to its validator: data[toSourceKey(key)] for a
\* MapField, data for a MultiField.
FieldInput(f, key, x) ==
    IF f.class = "MultiField" THEN Return(x)
    ELSE GetProperty(x, ToSourceKey(f, key))

Push(child) == [k |-> "push", child |-> child]
Pop(out) == [k |-> "pop", out |-> out]
Continue(acc) == [k |-> "continue", acc |-> acc]

\* The key and the field of the n-th pluck of the model at models[ref].
KeyAt(h, ref, n) == ObjectKeys(h.defs[h.models[ref].definition])[n]
FieldAt(h, ref, n) ==
    PropOf(h.defs[h.models[ref].definition], KeyAt(h, ref, n))

\* What an invocation does when it has the control and no call of its own
\* pending: it calls a validator or it comes back.
Enter(h, f) ==
    CASE f.v.op = "lazy" ->
           IF f.v.deferred.k = "throws"
           THEN Pop(Defect("Error", f.v.deferred.message, "deferred"))
           ELSE Push(Frame(f.v.deferred.validator, f.x))
      [] f.v.op = "optional" ->
           IF StrictlyUndefined(f.x) THEN Pop(Return(f.x))
           ELSE Push(Frame(f.v.validator, f.x))
      [] f.v.op = "arrayOf" ->
           IF ~IsArray(f.x) THEN Pop(ValidationError("an array", "arrayOf"))
           ELSE IF f.i >= Len(f.x.elems) THEN Pop(Return(Arr(f.acc)))
           ELSE Push(Frame(f.v.validator, f.x.elems[f.i + 1]))
      [] f.v.op = "model" ->
           LET m == h.models[f.v.ref] IN
           IF ~IsObjectTyped(f.x)
           THEN Pop(ModelCatch(m.name,
                       Result(ValidationError("an object", "Model.validate"),
                              <<>>)).out)
           ELSE IF f.i >= Len(h.defs[m.definition])
           THEN Pop(Return(Obj(f.acc)))
           ELSE LET input == FieldInput(FieldAt(h, f.v.ref, f.i + 1),
                                        KeyAt(h, f.v.ref, f.i + 1), f.x)
                IN IF Thrown(input)
                   THEN Pop(ModelCatch(m.name, Result(input, <<>>)).out)
                   ELSE Push(Frame(FieldAt(h, f.v.ref, f.i + 1).validator,
                                   input.v))
      [] OTHER -> Pop(Validate(h, f.v, f.x).out)

\* What an invocation does with the outcome o of the call it made.
Resume(h, f, o) ==
    CASE f.v.op = "lazy" -> Pop(o)
      [] f.v.op = "optional" ->
           Pop(WrapCatch(Result(o, <<>>), "undefined or").out)
      [] f.v.op = "arrayOf" ->
           LET r == WrapCatch(Result(o, <<>>),
                              "an array with value at ["
                                  \o ToString(f.i - 1) \o "], that is").out
           IN IF Thrown(r) THEN Pop(r) ELSE Continue(Append(f.acc, r.v))
      [] f.v.op = "model" ->
           LET m == h.models[f.v.ref]
               key == KeyAt(h, f.v.ref, f.i)
               fld == FieldAt(h, f.v.ref, f.i)
               r == IF fld.class = "MultiField" THEN o
                    ELSE WrapCatch(Result(o, <<>>),
                                   AttributePrefix(key,
                                                   ToSourceKey(fld, key))).out
           IN IF Thrown(r) THEN Pop(ModelCatch(m.name, Result(r, <<>>)).out)
              ELSE Continue(SetResult(f.acc, key, r.v))

WithTop(stack, f) == [stack EXCEPT ![Len(stack)] = f]
Front(stack) == SubSeq(stack, 1, Len(stack) - 1)

\* validator(raw) is called.
Start(validator, raw) ==
    /\ Idle
    /\ call' = [op |-> "run", validator |-> validator,
                stack |-> <<Frame(validator, raw)>>]
    /\ data' = raw
    /\ outcome' = NoOutcome
    /\ log' = <<>>
    /\ UNCHANGED <<defs, models, built>>

\* The invocation on top calls a validator.
CallValidator ==
    /\ Running /\ call.stack # <<>> /\ outcome = NoOutcome
    /\ Enter(Heap, Top).k = "push"
    /\ Len(call.stack) < MaxDepth
    /\ call' = [call EXCEPT
                  !.stack = Append(WithTop(call.stack,
                                           [Top EXCEPT !.i = Top.i + 1]),
                                   Enter(Heap, Top).child)]
    /\ UNCHANGED <<defs, models, built, data, outcome, log>>

\* The invocation on top calls a validator and the engine has no room for
\* the call: a RangeError, which every catch clause on the way rethrows.
Overflow ==
    /\ Running /\ call.stack # <<>> /\ outcome = NoOutcome
    /\ Enter(Heap, Top).k = "push"
    /\ Len(call.stack) >= MaxDepth
    /\ call' = [call EXCEPT !.stack = <<>>]
    /\ outcome' = StackOverflow
    /\ UNCHANGED <<defs, models, built, data, log>>

\* The invocation on top returns or throws without a further call.
ComeBack ==
    /\ Running /\ call.stack # <<>> /\ outcome = NoOutcome
    /\ Enter(Heap, Top).k = "pop"
    /\ call' = [call EXCEPT !.stack = Front(call.stack)]
    /\ outcome' = Enter(Heap, Top).out
    /\ UNCHANGED <<defs, models, built, data, log>>

\* The invocation on top gets the outcome of the call it made: it returns
\* it, rethrows it, or keeps it and goes on with its loop.
TakeOutcome ==
    /\ Running /\ call.stack # <<>> /\ outcome # NoOutcome
    /\ LET next == Resume(Heap, Top, outcome)
       IN IF next.k = "pop"
          THEN /\ call' = [call EXCEPT !.stack = Front(call.stack)]
               /\ outcome' = next.out
          ELSE /\ call' = [call EXCEPT
                             !.stack = WithTop(call.stack,
                                               [Top EXCEPT !.acc = next.acc])]
               /\ outcome' = NoOutcome
    /\ UNCHANGED <<defs, models, built, data, log>>

\* The steps of a call in progress.
StepR == CallValidator \/ Overflow \/ ComeBack \/ TakeOutcome

Finished == Running /\ call.stack = <<>>

NextR ==
    \/ /\ Idle
       /\ \E validator \in RecursiveValidators, raw \in RecursiveInputs :
             Start(validator, raw)
    \/ CallValidator
    \/ Overflow
    \/ ComeBack
    \/ TakeOutcome
    \/ Finished /\ Discard

SpecR == InitR /\ [][NextR]_vars

\* A call in progress goes on: the engine runs it to its end.
FairSpecR == SpecR /\ WF_vars(StepR)

----------------------------------------------------------------------------
(* Termination and the depth of the recursion *)

\* The validators an invocation of v calls, and those of them it calls on
\* the input it was given itself.
Callees(h, v) ==
    CASE v.op = "lazy" ->
           IF v.deferred.k = "returns" THEN {v.deferred.validator} ELSE {}
      [] v.op \in {"optional", "arrayOf"} -> {v.validator}
      [] v.op = "model" ->
           LET definition == h.defs[h.models[v.ref].definition]
           IN {definition[j].v.validator : j \in 1..Len(definition)}
      [] OTHER -> {}
CalleesOnSameInput(h, v) ==
    CASE v.op = "lazy" ->
           IF v.deferred.k = "returns" THEN {v.deferred.validator} ELSE {}
      [] v.op = "optional" -> {v.validator}
      [] v.op = "model" ->
           LET definition == h.defs[h.models[v.ref].definition]
           IN {definition[j].v.validator :
                 j \in {n \in 1..Len(definition) :
                          definition[n].v.class = "MultiField"}}
      [] OTHER -> {}

RECURSIVE Reached(_, _)
Reached(h, S) ==
    LET T == S \cup UNION {Callees(h, v) : v \in S}
    IN IF T = S THEN S ELSE Reached(h, T)
RECURSIVE ReachedOnSameInput(_, _)
ReachedOnSameInput(h, S) ==
    LET T == S \cup UNION {CalleesOnSameInput(h, v) : v \in S}
    IN IF T = S THEN S ELSE ReachedOnSameInput(h, T)

\* The validators of the schema v: v and every validator under it.
SchemaOf(h, v) == Reached(h, {v})

\* No validator of the schema reaches itself on the input it was given:
\* every cycle goes through a key-mapped field or an arrayOf.
ConsumesInput(h, v) ==
    \A w \in SchemaOf(h, v) :
        w \notin ReachedOnSameInput(h, CalleesOnSameInput(h, w))

Max(S) == CHOOSE n \in S : \A m \in S : m <= n
\* How deep the objects and arrays of a value nest.
RECURSIVE NestingOf(_)
NestingOf(x) ==
    CASE x.t = "object" ->
           1 + Max({0} \cup {NestingOf(x.props[j].v) :
                               j \in 1..Len(x.props)})
      [] x.t = "array" ->
           1 + Max({0} \cup {NestingOf(x.elems[j]) : j \in 1..Len(x.elems)})
      [] OTHER -> 0

Depth == Len(call.stack)

\* C24 as stated: the invocations of a call never nest deeper than the
\* schema nests (at most one invocation for each validator of the schema),
\* whatever the schema, and the call ends with a result or an error of the
\* validators.
C24_DepthIsSchemaDepth ==
    Running =>
        /\ Depth <= Cardinality(SchemaOf(Heap, call.validator))
        /\ outcome # StackOverflow

\* C24, for the schemas whose every cycle through lazy goes through a
\* key-mapped field or an arrayOf: the invocations of a call never nest
\* deeper than the size of the schema times one more than the nesting of
\* the input, the engine's stack is never exhausted, and every call ends,
\* with the outcome the validators define.
C24_TerminatesWhenInputConsumed ==
    /\ [](Running /\ ConsumesInput(Heap, call.validator) =>
             /\ Depth <= Cardinality(SchemaOf(Heap, call.validator))
                             * (NestingOf(data) + 1)
             /\ outcome # StackOverflow)
    /\ \A validator \in RecursiveValidators, raw \in RecursiveInputs :
          (/\ Running
           /\ call.validator = validator
           /\ data = raw
           /\ ConsumesInput(Heap, validator))
             ~> (/\ Finished
                 /\ call.validator = validator
                 /\ data = raw
                 /\ ConsumesInput(Heap, validator)
                 /\ outcome = Validate(Heap, validator, raw).out)

\* Tree has validated a tree of three levels, the recursion having gone
\* through lazy twice.
C24_Witness ==
    /\ Finished
    /\ call.validator = ModelRef(1)
    /\ data = TreeOf(<<TreeOf(<<Leaf>>)>>)
    /\ outcome = Return(data)

====
